---- MODULE Spec2Model ----
(***************************************************************************)
(* Model of pack.py, the packaging helper of DTC.Installer: the            *)
(* reconciliation of packaging.json (ensure_cfg), the preference store,    *)
(* the propagation of the version into the project descriptor, the         *)
(* template token engine and the driver (main).                            *)
(*                                                                         *)
(* Text is modelled as a sequence of one-character strings, so that        *)
(* strip, split, the regular expressions and str.replace are computed on   *)
(* characters as Python computes them.  A few values that the program only *)
(* passes around (runtime identifiers, absolute directories, file paths,   *)
(* tags of the project descriptor) are single opaque elements.             *)
(***************************************************************************)
EXTENDS Integers, Sequences, FiniteSets, TLC

VARIABLES
    cfgFile,        \* packaging.json on disk (CFG_PATH)
    prefsFile,      \* the preference document on disk (prefs_path())
    projFile,       \* the project descriptor (.csproj) on disk
    remote,         \* url of remote "origin" in .git/config ("" when none)
    platform,       \* "win" | "mac" | "linux"  (IS_WINDOWS / IS_MACOS)
    templates,      \* the Inno script and Info.plist templates on disk
    argc,           \* len(sys.argv)
    anyPackaged,    \* main's any_packaged
    pc,             \* position of main()
    cfg,            \* the config document main() holds (ensure_cfg's result)
    created,        \* ensure_cfg's second result
    updates,        \* the change notes of the current ensure_cfg pass
    err,            \* the exception that ended the run, if any
    out,            \* the lines printed by log() that the claims speak of
    exitCode,       \* -1 while running, then the process exit status
    invoked,        \* external tools invoked in this run, in order
    generated,      \* the files replace_tokens wrote in this run, in order
    expansion,      \* the latest call of replace_tokens in this run: its
                    \* arguments and its local variable text
    publishDir,     \* the runtime identifier whose publish output is at hand
    macQueue,       \* runtime identifiers the macOS loop has still to do
    writes,         \* number of writes of each file in the current run
    run,            \* number of invocations of the tool so far
    recorded,       \* history: the [auto, prefix] pairs remember_bundle_prefix
                    \* has saved so far, in order
    hist            \* history: what the files held when the current run
                    \* started, and what the run before it produced

vars == <<cfgFile, prefsFile, projFile, remote, platform, templates, argc,
          anyPackaged, pc, cfg, created, updates, err, out, exitCode, invoked,
          generated, expansion, publishDir, macQueue, writes, run, recorded, hist>>

(***************************************************************************)
(* Characters and strings                                                  *)
(***************************************************************************)
UpperCase == <<"A","B","C","D","E","F","G","H","I","J","K","L","M",
               "N","O","P","Q","R","S","T","U","V","W","X","Y","Z">>
LowerCase == <<"a","b","c","d","e","f","g","h","i","j","k","l","m",
               "n","o","p","q","r","s","t","u","v","w","x","y","z">>
Digits == <<"0","1","2","3","4","5","6","7","8","9">>

IsUpper(c) == \E i \in 1..26 : UpperCase[i] = c
IsLower(c) == \E i \in 1..26 : LowerCase[i] = c
IsDigit(c) == \E i \in 1..10 : Digits[i] = c
\* str.isalnum for one character
IsAlnum(c) == IsUpper(c) \/ IsLower(c) \/ IsDigit(c)
\* the class [A-Za-z0-9_]
IsWord(c) == IsAlnum(c) \/ c = "_"
\* the class \s, and what str.strip() removes
IsSpace(c) == c \in {" ", "\t", "\n"}

\* str.lower / str.upper for one character
LowerChar(c) == IF IsUpper(c) THEN LowerCase[CHOOSE i \in 1..26 : UpperCase[i] = c] ELSE c
UpperChar(c) == IF IsLower(c) THEN UpperCase[CHOOSE i \in 1..26 : LowerCase[i] = c] ELSE c
Lower(s) == [i \in 1..Len(s) |-> LowerChar(s[i])]
Upper(s) == [i \in 1..Len(s) |-> UpperChar(s[i])]

\* code point order of the characters the model uses (sorted() on str)
Ord(c) ==
    IF IsDigit(c) THEN 48 + (CHOOSE i \in 1..10 : Digits[i] = c) - 1
    ELSE IF IsUpper(c) THEN 65 + (CHOOSE i \in 1..26 : UpperCase[i] = c) - 1
    ELSE IF c = "_" THEN 95
    ELSE IF IsLower(c) THEN 97 + (CHOOSE i \in 1..26 : LowerCase[i] = c) - 1
    ELSE 0

RECURSIVE LStrip(_)
LStrip(s) == IF s # <<>> /\ IsSpace(Head(s)) THEN LStrip(Tail(s)) ELSE s
RECURSIVE RStrip(_)
RStrip(s) == IF s # <<>> /\ IsSpace(s[Len(s)]) THEN RStrip(SubSeq(s, 1, Len(s) - 1)) ELSE s
\* str.strip()
Strip(s) == RStrip(LStrip(s))

StartsWith(s, p) == Len(s) >= Len(p) /\ SubSeq(s, 1, Len(p)) = p
EndsWith(s, p) == Len(s) >= Len(p) /\ SubSeq(s, Len(s) - Len(p) + 1, Len(s)) = p
\* s[k:] and s[:k] (0-based k, as in Python)
From(s, k) == SubSeq(s, k + 1, Len(s))
Upto(s, k) == SubSeq(s, 1, k)

\* str.split(sep) for a one-character separator: empty parts are kept
RECURSIVE Split(_, _)
Split(s, sep) ==
    IF \A i \in 1..Len(s) : s[i] # sep THEN <<s>>
    ELSE LET i == CHOOSE k \in 1..Len(s) : s[k] = sep /\ \A j \in 1..(k - 1) : s[j] # sep
         IN  <<SubSeq(s, 1, i - 1)>> \o Split(From(s, i), sep)

\* sep.join(parts)
RECURSIVE Join(_, _)
Join(parts, sep) ==
    IF parts = <<>> THEN <<>>
    ELSE IF Len(parts) = 1 THEN parts[1]
    ELSE parts[1] \o sep \o Join(Tail(parts), sep)

\* str.replace(old, new): the occurrences of old, left to right, not overlapping
RECURSIVE Replace(_, _, _)
Replace(s, old, new) ==
    IF s = <<>> THEN <<>>
    ELSE IF StartsWith(s, old) THEN new \o Replace(From(s, Len(old)), old, new)
    ELSE <<Head(s)>> \o Replace(Tail(s), old, new)

(***************************************************************************)
(* JSON values.  A key of a document holds a record [t, s]: t = "none"     *)
(* when the key is absent, "null" for null, "str" for a string and "num"   *)
(* for a number, s being the text (for a number, the text str() gives).    *)
(***************************************************************************)
NoKey == [t |-> "none", s |-> <<>>]
Null == [t |-> "null", s |-> <<>>]
Str(s) == [t |-> "str", s |-> s]
Num(s) == [t |-> "num", s |-> s]
\* Python truth of a value obtained by dict.get: None, "" are false
Truthy(v) == v.t \in {"str", "num"} /\ v.s # <<>>
\* str(value) of a string or number
PyStr(v) == v.s

DEFAULT_VERSION == <<"0", ".", "1">>

\* re.fullmatch(r"\d+\.\d+", s)
IsMajorMinor(s) ==
    \E i \in 2..(Len(s) - 1) :
        /\ s[i] = "."
        /\ \A j \in 1..Len(s) : j # i => IsDigit(s[j])

\* validate_version: ok = FALSE stands for the PackagingError it raises
validate_version(value) ==
    IF Strip(value) = <<>>
    THEN [ok |-> FALSE, value |-> <<>>, msg |-> "Version must be a non-empty string."]
    ELSE IF ~IsMajorMinor(Strip(value))
    THEN [ok |-> FALSE, value |-> <<>>, msg |-> "Version must use major.minor format (e.g. 1.2)."]
    ELSE [ok |-> TRUE, value |-> Strip(value), msg |-> ""]

\* sanitize_identifier: text is a value (None allowed), fallback a string
sanitize_identifier(text, fallback) ==
    LET raw == IF Truthy(text) THEN Lower(text.s) ELSE <<>>
        cleaned == SelectSeq(raw, LAMBDA ch : IsAlnum(ch))
    IN  IF cleaned # <<>> THEN cleaned ELSE fallback

\* normalize_bundle_prefix: Null stands for None
normalize_bundle_prefix(prefix) ==
    IF ~Truthy(prefix) THEN Null
    ELSE IF Strip(PyStr(prefix)) = <<>> THEN Null
    ELSE IF EndsWith(Strip(PyStr(prefix)), <<".">>) THEN Str(Strip(PyStr(prefix)))
    ELSE Str(Strip(PyStr(prefix)) \o <<".">>)

\* extract_bundle_prefix giving a prefix for two segments: what the preference
\* property C14 rules out
extract_bundle_prefix_of_two(bundle_id) ==
    IF ~Truthy(bundle_id) THEN Null
    ELSE LET parts == SelectSeq(Split(Strip(PyStr(bundle_id)), "."), LAMBDA part : part # <<>>)
         IN  IF Len(parts) < 2 THEN Null
             ELSE normalize_bundle_prefix(Str(Join(SubSeq(parts, 1, Len(parts) - 1), <<".">>)))

\* extract_bundle_prefix
extract_bundle_prefix(bundle_id) ==
    IF ~Truthy(bundle_id) THEN Null
    ELSE LET parts == SelectSeq(Split(Strip(PyStr(bundle_id)), "."), LAMBDA part : part # <<>>)
         IN  IF Len(parts) < 3 THEN Null
             ELSE normalize_bundle_prefix(Str(Join(SubSeq(parts, 1, Len(parts) - 1), <<".">>)))

ComDot == <<"c", "o", "m", ".">>
Example == <<"e", "x", "a", "m", "p", "l", "e">>

\* auto_bundle_prefix
auto_bundle_prefix(c) ==
    LET company_slug == sanitize_identifier(c.CompanyName, Example)
        p == normalize_bundle_prefix(Str(ComDot \o company_slug))
    IN  IF Truthy(p) THEN p.s ELSE ComDot \o Example \o <<".">>

\* get_prefix_map: the preference document is [Map, Legacy]; a document
\* without the key has the empty map
EmptyMap == [k \in {} |-> Null]
get_prefix_map(prefs) == prefs.Map

\* preferred_bundle_prefix reading the legacy key only, as if the prefix map
\* were never consulted: what the propagation property C4 rules out
preferred_bundle_prefix_legacy_only(prefs, auto_prefix) ==
    normalize_bundle_prefix(prefs.Legacy)

\* preferred_bundle_prefix
preferred_bundle_prefix(prefs, auto_prefix) ==
    IF auto_prefix \in DOMAIN get_prefix_map(prefs)
    THEN normalize_bundle_prefix(get_prefix_map(prefs)[auto_prefix])
    ELSE normalize_bundle_prefix(prefs.Legacy)

(***************************************************************************)
(* publisher_url_from_remote                                               *)
(***************************************************************************)
Https == <<"h", "t", "t", "p", "s", ":", "/", "/">>
Http == <<"h", "t", "t", "p", ":", "/", "/">>
GitAt == <<"g", "i", "t", "@">>

\* the groups of ^https?://([^/]+)/([^/]+)/([^/]+?)(?:\.git)?$ : after the
\* scheme the text must be exactly three non-empty parts between slashes
MatchHttpRemote(r) ==
    LET rest == IF StartsWith(r, Https) THEN From(r, Len(Https))
                ELSE IF StartsWith(r, Http) THEN From(r, Len(Http))
                ELSE <<>>
        parts == Split(rest, "/")
    IN  IF (StartsWith(r, Https) \/ StartsWith(r, Http))
           /\ Len(parts) = 3 /\ \A i \in 1..3 : parts[i] # <<>>
        THEN [ok |-> TRUE, host |-> parts[1], owner |-> parts[2]]
        ELSE [ok |-> FALSE, host |-> <<>>, owner |-> <<>>]

\* the second pattern never matching: what the remote property C9 rules out
MatchSshRemoteNever(r) == [ok |-> FALSE, host |-> <<>>, owner |-> <<>>]

\* the groups of ^git@([^:]+):([^/]+)/([^/]+?)(?:\.git)?$ : the host runs to
\* the first colon, the owner to the next slash, and no slash follows
MatchSshRemote(r) ==
    LET rest == IF StartsWith(r, GitAt) THEN From(r, Len(GitAt)) ELSE <<>>
        hostAndPath == Split(rest, ":")
        host == hostAndPath[1]
        path == Join(Tail(hostAndPath), <<":">>)
        parts == Split(path, "/")
    IN  IF StartsWith(r, GitAt) /\ Len(hostAndPath) >= 2 /\ host # <<>>
           /\ Len(parts) = 2 /\ parts[1] # <<>> /\ parts[2] # <<>>
        THEN [ok |-> TRUE, host |-> host, owner |-> parts[1]]
        ELSE [ok |-> FALSE, host |-> <<>>, owner |-> <<>>]

\* the loop over the two patterns: the first that matches gives the url
publisher_url_from_remote(r) ==
    IF r = <<>> THEN <<>>
    ELSE LET url(m) == Https \o m.host \o <<"/">> \o m.owner
             second(m) == IF m.ok THEN url(m) ELSE <<>>
             first(m) == IF m.ok THEN url(m) ELSE second(MatchSshRemote(Strip(r)))
         IN  first(MatchHttpRemote(Strip(r)))

(***************************************************************************)
(* replace_tokens                                                          *)
(***************************************************************************)
\* length of the longest prefix of s whose characters all satisfy P
RunLen(s, P(_)) ==
    CHOOSE n \in 0..Len(s) :
        /\ \A i \in 1..n : P(s[i])
        /\ (n = Len(s) \/ ~P(s[n + 1]))

Open2 == <<"{", "{">>
Close2 == <<"}", "}">>

\* a match of {{\s*([A-Za-z0-9_]+)\s*}} at the start of s
MatchPlaceholder(s) ==
    LET a == From(s, 2)
        ws1 == RunLen(a, IsSpace)
        b == From(a, ws1)
        n == RunLen(b, IsWord)
        c == From(b, n)
        ws2 == RunLen(c, IsSpace)
        d == From(c, ws2)
    IN  IF StartsWith(s, Open2) /\ n > 0 /\ StartsWith(d, Close2)
        THEN [ok |-> TRUE, name |-> Upto(b, n), len |-> 2 + ws1 + n + ws2 + 2]
        ELSE [ok |-> FALSE, name |-> <<>>, len |-> 0]

\* re.findall(r"{{\s*([A-Za-z0-9_]+)\s*}}", text)
RECURSIVE FindPlaceholders(_)
FindPlaceholders(text) ==
    IF text = <<>> THEN <<>>
    ELSE LET rest(m) == IF m.ok THEN <<m.name>> \o FindPlaceholders(From(text, m.len))
                         ELSE FindPlaceholders(Tail(text))
         IN  rest(MatchPlaceholder(text))

\* a < b for str (code point order, a proper prefix first)
StrLess(a, b) ==
    \E i \in 1..(Len(b)) :
        /\ \A j \in 1..(i - 1) : j <= Len(a) /\ a[j] = b[j]
        /\ (i = Len(a) + 1 \/ (i <= Len(a) /\ Ord(a[i]) < Ord(b[i])))

\* sorted(S) for a set of strings
RECURSIVE Sorted(_)
Sorted(S) ==
    IF S = {} THEN <<>>
    ELSE LET least == CHOOSE x \in S : \A y \in S : y = x \/ StrLess(x, y)
         IN  <<least>> \o Sorted(S \ {least})

Range(f) == {f[i] : i \in DOMAIN f}

\* the loop of lines 593-594 left after its first turn: what the order
\* property C15 rules out
ApplyTokensFirstOnly(text, tokens) ==
    IF tokens = <<>> THEN text
    ELSE Replace(text, Open2 \o Head(tokens).key \o Close2, Head(tokens).value)

\* the loop over tokens.items(): tokens is the dict as the sequence of its
\* [key, value] entries in insertion order
RECURSIVE ApplyTokens(_, _)
ApplyTokens(text, tokens) ==
    IF tokens = <<>> THEN text
    ELSE ApplyTokens(Replace(text, Open2 \o Head(tokens).key \o Close2, Head(tokens).value),
                     Tail(tokens))

\* replace_tokens without the check of lines 596-599: what the gate
\* property C3 rules out
replace_tokens_unchecked(template, tokens) ==
    [ok |-> TRUE, text |-> ApplyTokens(template, tokens), names |-> <<>>]

\* replace_tokens: ok = FALSE stands for the PackagingError, names for the
\* names its message lists; text is the local variable text, which is written
\* to the output file only when ok
replace_tokens(template, tokens) ==
    LET result(text, leftover) ==
            IF leftover # <<>>
            THEN [ok |-> FALSE, text |-> text, names |-> Sorted(Range(leftover))]
            ELSE [ok |-> TRUE, text |-> text, names |-> <<>>]
        scan(text) == result(text, FindPlaceholders(text))
    IN  scan(ApplyTokens(template, tokens))

(***************************************************************************)
(* Documents.  packaging.json's object is a record of its keys; Win and    *)
(* Mac are records of their own keys with t = "none" (key absent), "null"  *)
(* or "dict".  Keys the model never sets (PublishArgs, Win.Compiler,       *)
(* Mac.AppName, ...) are absent from every document.                       *)
(***************************************************************************)
NoWin == [t |-> "none", InnoScript |-> NoKey, IconIco |-> NoKey, GUID |-> NoKey,
          RuntimeIdentifier |-> NoKey]
NoMac == [t |-> "none", RuntimeIdentifiers |-> NoKey, IconIcns |-> NoKey, InfoPlist |-> NoKey]
NullMac == [NoMac EXCEPT !.t = "null"]
EmptyMacDict == [NoMac EXCEPT !.t = "dict"]
List(s) == [t |-> "list", s |-> s]
\* Python truth of a sub-document: a dict with at least one key
DictTruthy(d, keys) == d.t = "dict" /\ \E k \in keys : d[k].t # "none"
MacKeys == {"RuntimeIdentifiers", "IconIcns", "InfoPlist"}
WinKeys == {"InnoScript", "IconIco", "GUID", "RuntimeIdentifier"}
\* truth of a value that may be a list
TruthyV(v) == v.t \in {"str", "num", "list"} /\ v.s # <<>>

EmptyDoc == [ProductName |-> NoKey, CompanyName |-> NoKey, PublisherUrl |-> NoKey,
             BundleIdentifier |-> NoKey, Executable |-> NoKey, Project |-> NoKey,
             Version |-> NoKey, Win |-> NoWin, Mac |-> NoMac]

\* the one place a project descriptor can be in the repositories of the model
ProjPath == "App/App.csproj"
IcnsPath == "App/Assets/app.icns"
IcoPath == "App/Assets/app.ico"
InnoPath == "Installer/templates/inno.iss"
PlistPath == "Installer/templates/Info.plist"
DefaultRids == <<"osx-arm64", "osx-x64">>
AppChars == <<"a", "p", "p">>

\* Path(p).stem for the paths of the model
Stem(p) == IF p = <<ProjPath>> THEN <<"A", "p", "p">> ELSE <<>>

\* first_csproj: the descriptor at ProjPath when it exists
first_csproj(proj) == IF proj.exists THEN Str(<<ProjPath>>) ELSE Null

\* exists() answering True for every path: what the missing-descriptor
\* property C8 rules out
PathExistsAlways(p, proj) == TRUE

\* (ROOT / project_rel).resolve().exists()
PathExists(p, proj) == p = <<ProjPath>> /\ proj.exists

(***************************************************************************)
(* read_csproj_metadata.  The descriptor's text is a sequence whose        *)
(* elements are whole tags and the characters between them.                *)
(***************************************************************************)
OpenTags == {"<Project>", "<PropertyGroup>", "<PropertyGroup Condition>",
             "<TargetFramework>", "<TargetFrameworks>", "<Version>", "<Company>"}
CloseTag(tag) ==
    CASE tag = "<Project>" -> "</Project>"
      [] tag = "<PropertyGroup>" -> "</PropertyGroup>"
      [] tag = "<PropertyGroup Condition>" -> "</PropertyGroup>"
      [] tag = "<TargetFramework>" -> "</TargetFramework>"
      [] tag = "<TargetFrameworks>" -> "</TargetFrameworks>"
      [] tag = "<Version>" -> "</Version>"
      [] tag = "<Company>" -> "</Company>"
      [] OTHER -> ""
CloseTags == {CloseTag(tag) : tag \in OpenTags}

\* what ET.parse accepts: one root element, every tag closed in order
RECURSIVE Balanced(_, _, _)
Balanced(text, stack, roots) ==
    IF text = <<>> THEN stack = <<>> /\ roots = 1
    ELSE IF Head(text) \in OpenTags
    THEN /\ (stack = <<>> => roots = 0)
         /\ Balanced(Tail(text), <<Head(text)>> \o stack,
                     IF stack = <<>> THEN roots + 1 ELSE roots)
    ELSE IF Head(text) \in CloseTags
    THEN /\ stack # <<>>
         /\ CloseTag(Head(stack)) = Head(text)
         /\ Balanced(Tail(text), Tail(stack), roots)
    ELSE /\ (stack = <<>> => IsSpace(Head(text)))
         /\ Balanced(Tail(text), stack, roots)
WellFormed(text) == Balanced(text, <<>>, 0)

\* node.text of the elements with this tag, in document order: the
\* characters between the start tag and the next tag
RECURSIVE ElementTexts(_, _)
ElementTexts(text, tag) ==
    IF text = <<>> THEN <<>>
    ELSE IF Head(text) = tag
    THEN LET body == Tail(text)
             n == RunLen(body, LAMBDA ch : ch \notin OpenTags \cup CloseTags)
         IN  <<Upto(body, n)>> \o ElementTexts(From(body, n), tag)
    ELSE ElementTexts(Tail(text), tag)

\* the last non-blank text of the elements with this tag, stripped
LastText(text, tag) ==
    LET found == SelectSeq(ElementTexts(text, tag), LAMBDA x : Strip(x) # <<>>)
    IN  IF found = <<>> THEN NoKey ELSE Str(Strip(found[Len(found)]))

\* read_csproj_metadata: a descriptor that does not parse gives {}
read_csproj_metadata(proj) ==
    IF ~WellFormed(proj.text)
    THEN [CompanyName |-> NoKey, ProductName |-> NoKey, Version |-> NoKey]
    ELSE [CompanyName |-> LastText(proj.text, "<Company>"),
          ProductName |-> Str(Stem(<<ProjPath>>)),
          Version |-> LastText(proj.text, "<Version>")]

(***************************************************************************)
(* The backfill steps of ensure_cfg.  Each takes the document and the      *)
(* change notes and gives back both, as the Python code updates them.      *)
(***************************************************************************)
\* ensure_bundle_identifier
ensure_bundle_identifier(c, ups, prefs, proj) ==
    IF Truthy(c.BundleIdentifier) THEN [cfg |-> c, updates |-> ups]
    ELSE LET found == first_csproj(proj)
             stem == IF Truthy(c.Project) THEN Stem(c.Project.s)
                     ELSE IF Truthy(found) THEN Stem(found.s)
                     ELSE <<>>
             default_product == IF stem # <<>> THEN stem ELSE AppChars
             base_product == IF Truthy(c.ProductName) THEN c.ProductName
                             ELSE Str(default_product)
             product_slug == sanitize_identifier(base_product, Lower(default_product))
             bundle_id(auto_prefix, preferred_prefix) ==
                 IF Truthy(preferred_prefix)
                 THEN preferred_prefix.s \o product_slug
                 ELSE auto_prefix \o product_slug
             with_prefix(auto_prefix) ==
                 bundle_id(auto_prefix, preferred_bundle_prefix(prefs, auto_prefix))
         IN  [cfg |-> [c EXCEPT !.BundleIdentifier = Str(with_prefix(auto_bundle_prefix(c)))],
              updates |-> Append(ups, "Added default BundleIdentifier")]

\* mac_defaults: gives the Mac section and the document, whose Project key
\* it sets when the key was empty and a descriptor was found
mac_defaults(c, proj) ==
    LET found == first_csproj(proj)
        c2 == IF ~Truthy(c.Project) /\ Truthy(found)
              THEN [c EXCEPT !.Project = found] ELSE c
        project_exists ==
            IF Truthy(c.Project) THEN PathExists(c.Project.s, proj) ELSE Truthy(found)
        icon_rel == IF project_exists /\ proj.assets THEN <<IcnsPath>> ELSE <<>>
    IN  [cfg |-> c2,
         mac |-> [t |-> "dict", RuntimeIdentifiers |-> List(DefaultRids),
                  IconIcns |-> Str(icon_rel), InfoPlist |-> Str(<<PlistPath>>)]]

\* ensure_mac_section with updated = True whatever the section holds: what
\* the idempotence property C2 rules out
ensure_mac_section_renormalising(c, ups, proj) ==
    IF c.Mac.t = "null" THEN [cfg |-> c, updates |-> ups]
    ELSE IF c.Mac.t = "none"
    THEN LET d == mac_defaults(c, proj)
         IN  [cfg |-> [d.cfg EXCEPT !.Mac = d.mac],
              updates |-> Append(ups, "Added default Mac packaging section")]
    ELSE [cfg |-> [c EXCEPT !.Mac = [c.Mac EXCEPT !.RuntimeIdentifiers = List(DefaultRids),
                                                  !.InfoPlist = Str(<<PlistPath>>)]],
          updates |-> Append(ups, "Normalised Mac packaging settings")]

\* ensure_mac_section taking a null Mac key for a missing one: what the Mac
\* property C10 rules out
ensure_mac_section_filling_null(c, ups, proj) ==
    IF c.Mac.t \in {"none", "null"}
    THEN LET d == mac_defaults(c, proj)
         IN  [cfg |-> [d.cfg EXCEPT !.Mac = d.mac],
              updates |-> Append(ups, "Added default Mac packaging section")]
    ELSE [cfg |-> c, updates |-> ups]

\* ensure_mac_section
ensure_mac_section(c, ups, proj) ==
    IF c.Mac.t = "null" THEN [cfg |-> c, updates |-> ups]
    ELSE IF c.Mac.t = "none"
    THEN LET d == mac_defaults(c, proj)
         IN  [cfg |-> [d.cfg EXCEPT !.Mac = d.mac],
              updates |-> Append(ups, "Added default Mac packaging section")]
    ELSE LET m0 == c.Mac
             noRids == ~TruthyV(m0.RuntimeIdentifiers)
             m1 == IF noRids THEN [m0 EXCEPT !.RuntimeIdentifiers = List(DefaultRids)] ELSE m0
             noPlist == ~TruthyV(m1.InfoPlist)
             m2 == IF noPlist THEN [m1 EXCEPT !.InfoPlist = Str(<<PlistPath>>)] ELSE m1
         IN  IF noRids \/ noPlist
             THEN [cfg |-> [c EXCEPT !.Mac = m2],
                   updates |-> Append(ups, "Normalised Mac packaging settings")]
             ELSE [cfg |-> c, updates |-> ups]

\* ensure_version: ok = FALSE stands for the PackagingError of validate_version
ensure_version(c, ups, proj) ==
    IF TruthyV(c.Version)
    THEN LET v == validate_version(PyStr(c.Version))
         IN  IF v.ok
             THEN [ok |-> TRUE, msg |-> "", cfg |-> [c EXCEPT !.Version = Str(v.value)],
                   updates |-> ups]
             ELSE [ok |-> FALSE, msg |-> v.msg, cfg |-> c, updates |-> ups]
    ELSE LET project_exists ==
                 IF Truthy(c.Project) THEN PathExists(c.Project.s, proj)
                 ELSE Truthy(first_csproj(proj))
             from_project(existing) ==
                 LET v == validate_version(existing.s)
                 IN  IF Truthy(existing) /\ v.ok
                     THEN [ok |-> TRUE, msg |-> "",
                           cfg |-> [c EXCEPT !.Version = Str(v.value)],
                           updates |-> Append(ups, "Added Version from project metadata")]
                     ELSE [ok |-> TRUE, msg |-> "",
                           cfg |-> [c EXCEPT !.Version = Str(DEFAULT_VERSION)],
                           updates |-> Append(ups, "Added default Version")]
         IN  from_project(IF project_exists THEN read_csproj_metadata(proj).Version ELSE NoKey)

\* default_publisher_url, with git_remote_url's result as rem
default_publisher_url(rem) == publisher_url_from_remote(rem)

\* ensure_publisher_url without its first two lines (the early return when
\* the key holds a value): what the frame property C1 rules out
ensure_publisher_url_overwriting(c, ups, rem) ==
    LET set(publisher_url) ==
            IF publisher_url = <<>> THEN [cfg |-> c, updates |-> ups]
            ELSE [cfg |-> [c EXCEPT !.PublisherUrl = Str(publisher_url)],
                  updates |-> Append(ups, "Added default PublisherUrl from git remote")]
    IN  set(default_publisher_url(rem))

\* ensure_publisher_url
ensure_publisher_url(c, ups, rem) ==
    IF Truthy(c.PublisherUrl) THEN [cfg |-> c, updates |-> ups]
    ELSE LET set(publisher_url) ==
                 IF publisher_url = <<>> THEN [cfg |-> c, updates |-> ups]
                 ELSE [cfg |-> [c EXCEPT !.PublisherUrl = Str(publisher_url)],
                       updates |-> Append(ups, "Added default PublisherUrl from git remote")]
         IN  set(default_publisher_url(rem))

\* remember_bundle_prefix: the preference document after the call, and
\* whether save_preferences wrote it
remember_bundle_prefix(c, prefs) ==
    LET mapping == get_prefix_map(prefs)
        record(auto_prefix, actual_prefix) ==
            IF ~Truthy(actual_prefix) THEN [prefs |-> prefs, saved |-> FALSE]
            ELSE IF auto_prefix \in DOMAIN mapping /\ mapping[auto_prefix] = actual_prefix
            THEN [prefs |-> prefs, saved |-> FALSE]
            ELSE [prefs |-> [prefs EXCEPT !.Map =
                                [k \in DOMAIN mapping \cup {auto_prefix} |->
                                    IF k = auto_prefix THEN actual_prefix ELSE mapping[k]]],
                  saved |-> TRUE]
    IN  record(auto_bundle_prefix(c), extract_bundle_prefix(c.BundleIdentifier))

\* the identifier uuid.uuid4() gives, upper-cased (one representative)
GeneratedGuid == <<"1", "A", "-", "2", "B">>

\* default_cfg: ok = FALSE stands for the PackagingError it raises
default_cfg(prefs, proj, rem) ==
    IF ~Truthy(first_csproj(proj))
    THEN [ok |-> FALSE, msg |-> "Could not locate a .csproj file.", cfg |-> EmptyDoc]
    ELSE LET stem == Stem(<<ProjPath>>)
             document(meta, bundle_id, v) ==
                 IF ~v.ok THEN [ok |-> FALSE, msg |-> v.msg, cfg |-> EmptyDoc]
                 ELSE [ok |-> TRUE, msg |-> "",
                       cfg |-> [ProductName |-> IF meta.ProductName.t = "none" THEN Str(stem)
                                                ELSE meta.ProductName,
                                CompanyName |-> IF meta.CompanyName.t = "none" THEN Str(<<>>)
                                                ELSE meta.CompanyName,
                                PublisherUrl |-> Str(default_publisher_url(rem)),
                                BundleIdentifier |-> Str(bundle_id),
                                Executable |-> Str(stem),
                                Project |-> Str(<<ProjPath>>),
                                Version |-> Str(v.value),
                                Win |-> [t |-> "dict", InnoScript |-> Str(<<InnoPath>>),
                                         IconIco |-> Str(IF proj.assets THEN <<IcoPath>>
                                                         ELSE <<>>),
                                         GUID |-> Str(<<"{">> \o GeneratedGuid \o <<"}">>),
                                         RuntimeIdentifier |-> Str(<<"win-x64">>)],
                                Mac |-> [t |-> "dict", RuntimeIdentifiers |-> List(DefaultRids),
                                         IconIcns |-> Str(IF proj.assets THEN <<IcnsPath>>
                                                          ELSE <<>>),
                                         InfoPlist |-> Str(<<PlistPath>>)]]]
             choose_id(product_slug, auto_prefix, preferred_prefix) ==
                 IF Truthy(preferred_prefix)
                 THEN preferred_prefix.s \o product_slug
                 ELSE auto_prefix \o product_slug
             with_auto(product_slug, auto_prefix) ==
                 choose_id(product_slug, auto_prefix,
                           preferred_bundle_prefix(prefs, auto_prefix))
             with_np(product_slug, np) ==
                 with_auto(product_slug,
                           IF Truthy(np) THEN np.s ELSE ComDot \o Example \o <<".">>)
             from_meta(meta) ==
                 document(meta,
                          with_np(sanitize_identifier(
                                      IF Truthy(meta.ProductName) THEN meta.ProductName
                                      ELSE Str(stem),
                                      Lower(stem)),
                                  normalize_bundle_prefix(
                                      Str(ComDot \o sanitize_identifier(meta.CompanyName,
                                                                        Example)))),
                          validate_version(IF meta.Version.t = "none" THEN DEFAULT_VERSION
                                           ELSE meta.Version.s))
         IN  from_meta(read_csproj_metadata(proj))

(***************************************************************************)
(* ensure_cfg.  packaging.json is [kind, doc, items]: kind "absent" (no    *)
(* file), "dict" (doc is the object) or "list" (items are the elements,    *)
(* each [isDict, doc]).  The result tells how the call ended, the files    *)
(* after it and how often it wrote each.                                   *)
(***************************************************************************)
NoFile == [kind |-> "absent", doc |-> EmptyDoc, items |-> <<>>]
DictFile(d) == [kind |-> "dict", doc |-> d, items |-> <<>>]
ListFile(items) == [kind |-> "list", doc |-> EmptyDoc, items |-> items]

\* the backfill of an existing document, lines 454-467
Backfill(data, file, prefs, proj, rem, wrote) ==
    LET remembered(s4, r) ==
            [ok |-> TRUE, msg |-> "", cfg |-> s4.cfg, created |-> FALSE,
             updates |-> s4.updates,
             file |-> IF s4.updates # <<>> THEN DictFile(s4.cfg) ELSE file,
             prefs |-> r.prefs,
             cfgWrites |-> wrote + (IF s4.updates # <<>> THEN 1 ELSE 0),
             prefsWrites |-> IF r.saved THEN 1 ELSE 0,
             logged |-> IF s4.updates # <<>>
                        THEN <<"[config] Updated packaging.json:">> \o s4.updates
                        ELSE <<>>]
        with_url(s4) == remembered(s4, remember_bundle_prefix(s4.cfg, prefs))
        with_version(s3) ==
            IF ~s3.ok
            THEN [ok |-> FALSE, msg |-> s3.msg, cfg |-> s3.cfg, created |-> FALSE,
                  updates |-> s3.updates, file |-> file, prefs |-> prefs,
                  cfgWrites |-> wrote, prefsWrites |-> 0, logged |-> <<>>]
            ELSE with_url(ensure_publisher_url(s3.cfg, s3.updates, rem))
        with_mac(s2) == with_version(ensure_version(s2.cfg, s2.updates, proj))
        with_bundle(s1) == with_mac(ensure_mac_section(s1.cfg, s1.updates, proj))
    IN  with_bundle(ensure_bundle_identifier(data, <<>>, prefs, proj))

\* the load of lines 443-453 accepting a list of one element only: what the
\* load property C7 rules out
LoadExistingOneElement(file) ==
    IF file.kind = "dict"
    THEN [ok |-> TRUE, data |-> file.doc, file |-> file, wrote |-> 0, logged |-> <<>>]
    ELSE IF Len(file.items) = 1 /\ file.items[1].isDict
    THEN [ok |-> TRUE, data |-> file.items[1].doc, file |-> DictFile(file.items[1].doc),
          wrote |-> 1,
          logged |-> <<"[config] Normalised legacy packaging.json structure.">>]
    ELSE [ok |-> FALSE, data |-> EmptyDoc, file |-> file, wrote |-> 0, logged |-> <<>>]

\* the load of lines 443-453 unwrapping a list without the rewrite of lines
\* 449-451: what the write count C13 rules out
LoadExistingWithoutRewrite(file) ==
    IF file.kind = "dict"
    THEN [ok |-> TRUE, data |-> file.doc, file |-> file, wrote |-> 0, logged |-> <<>>]
    ELSE IF file.items # <<>> /\ file.items[1].isDict
    THEN [ok |-> TRUE, data |-> file.items[1].doc, file |-> file, wrote |-> 0,
          logged |-> <<"[config] Normalised legacy packaging.json structure.">>]
    ELSE [ok |-> FALSE, data |-> EmptyDoc, file |-> file, wrote |-> 0, logged |-> <<>>]

\* the load of an existing packaging.json, lines 443-453: data as backfill
\* finds it, the file after the load and whether the load wrote it; ok =
\* FALSE stands for the PackagingError of line 453
LoadExisting(file) ==
    IF file.kind = "dict"
    THEN [ok |-> TRUE, data |-> file.doc, file |-> file, wrote |-> 0, logged |-> <<>>]
    ELSE IF file.items # <<>> /\ file.items[1].isDict
    THEN [ok |-> TRUE, data |-> file.items[1].doc, file |-> DictFile(file.items[1].doc),
          wrote |-> 1,
          logged |-> <<"[config] Normalised legacy packaging.json structure.">>]
    ELSE [ok |-> FALSE, data |-> EmptyDoc, file |-> file, wrote |-> 0, logged |-> <<>>]

ensure_cfg(file, prefs, proj, rem) ==
    IF file.kind # "absent"
    THEN LET loaded(l) ==
                 IF ~l.ok
                 THEN [ok |-> FALSE, msg |-> "Unexpected packaging.json structure.",
                       cfg |-> EmptyDoc, created |-> FALSE, updates |-> <<>>, file |-> file,
                       prefs |-> prefs, cfgWrites |-> 0, prefsWrites |-> 0, logged |-> <<>>]
                 ELSE [Backfill(l.data, l.file, prefs, proj, rem, l.wrote)
                          EXCEPT !.logged = l.logged \o @]
         IN  loaded(LoadExisting(file))
    ELSE LET remembered(d, r) ==
                 [ok |-> TRUE, msg |-> "", cfg |-> d.cfg, created |-> TRUE,
                  updates |-> <<>>, file |-> DictFile(d.cfg), prefs |-> r.prefs,
                  cfgWrites |-> 1, prefsWrites |-> IF r.saved THEN 1 ELSE 0,
                  logged |-> <<"[config] Created default packaging.json",
                               "Edit the file as needed, then re-run this script.">>]
             with_default(d) ==
                 IF ~d.ok
                 THEN [ok |-> FALSE, msg |-> d.msg, cfg |-> EmptyDoc, created |-> FALSE,
                       updates |-> <<>>, file |-> file, prefs |-> prefs,
                       cfgWrites |-> 0, prefsWrites |-> 0, logged |-> <<>>]
                 ELSE remembered(d, remember_bundle_prefix(d.cfg, prefs))
         IN  with_default(default_cfg(prefs, proj, rem))

(***************************************************************************)
(* update_project_version.  The descriptor is [exists, bom, text, assets]: *)
(* bom tells whether the file starts with a byte-order mark, text is the   *)
(* text after it (decode("utf-8-sig")), assets whether Assets/app.ico and  *)
(* Assets/app.icns lie beside it.                                          *)
(***************************************************************************)
\* the least index >= start of an element of s in S, 0 when there is none
IndexIn(s, S, start) ==
    IF \E i \in start..Len(s) : s[i] \in S
    THEN CHOOSE i \in start..Len(s) : s[i] \in S /\ \A j \in start..(i - 1) : s[j] \notin S
    ELSE 0

VersionElement(version) == <<"<Version>">> \o version \o <<"</Version>">>

\* end of the first match of (\s*<TargetFrameworks?>.*?</TargetFrameworks?>\s*\n?)
\* in group_text, 0 when there is none: an opening tag, the first closing
\* tag after it on the same line, and the white space that follows
RECURSIVE TfMatchEnd(_, _)
TfMatchEnd(group_text, start) ==
    LET k == IndexIn(group_text, {"<TargetFramework>", "<TargetFrameworks>"}, start)
        l == IF k = 0 THEN 0
             ELSE IndexIn(group_text, {"</TargetFramework>", "</TargetFrameworks>"}, k + 1)
    IN  IF k = 0 \/ l = 0 THEN 0
        ELSE IF \A j \in (k + 1)..(l - 1) : group_text[j] # "\n"
        THEN l + RunLen(From(group_text, l), IsSpace)
        ELSE TfMatchEnd(group_text, k + 1)

\* the text of lines 492-508 left as it is: what the propagation property
\* C11 rules out
UpdatedTextUnchanged(text, version) == [ok |-> TRUE, text |-> text]

\* the text update_project_version computes (lines 492-508); ok = FALSE
\* when there is neither a Version element nor a property group
UpdatedText(text, version) ==
    LET i == IndexIn(text, {"<Version>"}, 1)
        j == IF i = 0 THEN 0 ELSE IndexIn(text, {"</Version>"}, i + 1)
        g1a == IndexIn(text, {"<PropertyGroup>"}, 1)
        g2 == IF g1a = 0 THEN 0 ELSE IndexIn(text, {"</PropertyGroup>"}, g1a + 1)
        group_text == SubSeq(text, g1a, g2)
        insert_line == <<" ", " ", " ", " ", " ", " ", " ", " ">> \o VersionElement(version) \o <<"\n">>
        tf_end == TfMatchEnd(group_text, 1)
        insert_at == IF tf_end # 0 THEN tf_end ELSE Len(group_text) - 1
        new_group == Upto(group_text, insert_at) \o insert_line \o From(group_text, insert_at)
    IN  IF j # 0
        THEN [ok |-> TRUE, text |-> Upto(text, i - 1) \o VersionElement(version) \o From(text, j)]
        ELSE IF g2 = 0 THEN [ok |-> FALSE, text |-> text]
        ELSE [ok |-> TRUE, text |-> Upto(text, g1a - 1) \o new_group \o From(text, g2)]

NoErr == [kind |-> "none", step |-> "", msg |-> "", names |-> <<>>]
PackagingError(step, msg) == [kind |-> "PackagingError", step |-> step, msg |-> msg, names |-> <<>>]
\* an exception that is not a PackagingError (KeyError, TypeError, OSError)
Unexpected(step, msg) == [kind |-> "Unexpected", step |-> step, msg |-> msg, names |-> <<>>]


\* update_project_version: the error it raises if any, the descriptor after
\* the call and whether it wrote the file
update_project_version(c, proj) ==
    IF ~Truthy(c.Project) THEN [err |-> NoErr, proj |-> proj, wrote |-> FALSE]
    ELSE IF ~PathExists(c.Project.s, proj)
    THEN [err |-> PackagingError("update_project_version", "Project file not found"),
          proj |-> proj, wrote |-> FALSE]
    ELSE LET write(u) ==
                 IF ~u.ok
                 THEN [err |-> PackagingError("update_project_version",
                                              "Project file has no <PropertyGroup> to set Version."),
                       proj |-> proj, wrote |-> FALSE]
                 ELSE IF u.text = proj.text THEN [err |-> NoErr, proj |-> proj, wrote |-> FALSE]
                 ELSE [err |-> NoErr, proj |-> [proj EXCEPT !.text = u.text], wrote |-> TRUE]
             with_version(v) ==
                 IF ~v.ok
                 THEN [err |-> PackagingError("update_project_version", v.msg),
                       proj |-> proj, wrote |-> FALSE]
                 ELSE write(UpdatedText(proj.text, v.value))
         IN  with_version(validate_version(IF c.Version.t = "none" THEN DEFAULT_VERSION
                                           ELSE IF c.Version.t = "null" THEN <<"N", "o", "n", "e">>
                                           ELSE PyStr(c.Version)))

(***************************************************************************)
(* publish_project, package_windows, package_macos.  What the external     *)
(* tools answer is a parameter of each: the model draws it when the step   *)
(* runs.  Each gives the error raised if any, the tools it invoked and the *)
(* file replace_tokens generated.                                          *)
(***************************************************************************)
\* the keys of the tokens dicts (lines 640-651 and 770-780), and two names
\* no tokens dict holds
Key ==
    [ ProductName |-> <<"P","r","o","d","u","c","t","N","a","m","e">>,
      CompanyName |-> <<"C","o","m","p","a","n","y","N","a","m","e">>,
      PublisherUrl |-> <<"P","u","b","l","i","s","h","e","r","U","r","l">>,
      Version |-> <<"V","e","r","s","i","o","n">>,
      Executable |-> <<"E","x","e","c","u","t","a","b","l","e">>,
      AppId |-> <<"A","p","p","I","d">>,
      SourceDir |-> <<"S","o","u","r","c","e","D","i","r">>,
      OutputDir |-> <<"O","u","t","p","u","t","D","i","r">>,
      OutputBase |-> <<"O","u","t","p","u","t","B","a","s","e">>,
      SetupIconFile |-> <<"S","e","t","u","p","I","c","o","n","F","i","l","e">>,
      BundleIdentifier |-> <<"B","u","n","d","l","e","I","d","e","n","t","i","f","i","e","r">>,
      IconFile |-> <<"I","c","o","n","F","i","l","e">>,
      Category |-> <<"C","a","t","e","g","o","r","y">>,
      MinimumSystemVersion |-> <<"M","i","n","i","m","u","m","S","y","s","t","e","m", "V","e","r","s","i","o","n">>,
      Copyright |-> <<"C","o","p","y","r","i","g","h","t">>,
      Foo |-> <<"F", "o", "o">>,
      Bar |-> <<"B", "a", "r">> ]
DotExe == <<".", "e", "x", "e">>
Tok(k, v) == [key |-> k, value |-> v]
NoOutput == <<>>
Output(name, rid, text) == <<[name |-> name, rid |-> rid, text |-> text]>>
NoExpansion == [called |-> FALSE, step |-> "", template |-> <<>>, tokens |-> <<>>,
                text |-> <<>>, ok |-> FALSE]
Expansion(step, template, tokens, r) ==
    [called |-> TRUE, step |-> step, template |-> template, tokens |-> tokens,
     text |-> r.text, ok |-> r.ok]
\* the text of a value used in an f-string or as a replacement ("" when the
\* key is absent and the code reads it with a "" default)
TextOf(v) == IF v.t \in {"str", "num"} THEN v.s ELSE <<>>

\* str.strip("{}")
RECURSIVE StripBraces(_)
StripBraces(s) ==
    IF s # <<>> /\ Head(s) \in {"{", "}"} THEN StripBraces(Tail(s))
    ELSE IF s # <<>> /\ s[Len(s)] \in {"{", "}"} THEN StripBraces(Upto(s, Len(s) - 1))
    ELSE s

\* publish_project: dotnetOk tells whether "dotnet publish" exits with 0
publish_project(c, rid, proj, dotnetOk) ==
    IF c.Project.t \notin {"str"}
    THEN [err |-> Unexpected("publish_project", "KeyError: 'Project'"), invoked |-> <<>>,
          version |-> <<>>]
    ELSE IF c.Project.s # <<>> /\ ~PathExists(c.Project.s, proj)
    THEN [err |-> PackagingError("publish_project", "Project file not found"),
          invoked |-> <<>>, version |-> <<>>]
    ELSE IF ~dotnetOk
    THEN [err |-> PackagingError("publish_project", "Command failed"),
          invoked |-> <<<<"dotnet publish", rid>>>>, version |-> <<>>]
    ELSE IF TruthyV(c.Version)
    THEN [err |-> NoErr, invoked |-> <<<<"dotnet publish", rid>>>>, version |-> c.Version.s]
    ELSE [err |-> NoErr, invoked |-> <<<<"dotnet publish", rid>>, <<"git describe", rid>>>>,
          version |-> <<"0", ".", "0", ".", "0">>]

\* the tokens dict of package_windows, lines 640-651
WindowsTokens(c, version, rid, exe_name, proj) ==
    LET win_cfg == c.Win
        core == IF Truthy(win_cfg.GUID) THEN Upper(StripBraces(Strip(PyStr(win_cfg.GUID))))
                ELSE GeneratedGuid
        icon == IF ~Truthy(win_cfg.IconIco) THEN <<"<ROOT>">>
                ELSE IF win_cfg.IconIco.s = <<IcoPath>> /\ proj.assets THEN <<"<ROOT>/", IcoPath>>
                ELSE <<>>
    IN  << Tok(Key.ProductName, c.ProductName.s),
           Tok(Key.CompanyName, TextOf(c.CompanyName)),
           Tok(Key.PublisherUrl, TextOf(c.PublisherUrl)),
           Tok(Key.Version, version),
           Tok(Key.Executable, exe_name),
           Tok(Key.AppId, Open2 \o core \o Close2),
           Tok(Key.SourceDir, <<"<WORK_ROOT>/publish/", rid>>),
           Tok(Key.OutputDir, <<"<ROOT>/dist/win">>),
           Tok(Key.OutputBase, c.ProductName.s \o <<"-">> \o version \o <<"-", rid>>),
           Tok(Key.SetupIconFile, icon) >>

\* package_windows: tpl is the Inno template on disk; exeOk tells whether the
\* published executable exists, isccFound whether locate_inno_compiler finds
\* a compiler, isccOk whether the compiler exits with 0
package_windows(c, version, rid, proj, tpl, exeOk, isccFound, isccOk) ==
    LET win_cfg == c.Win
        exe0 == IF Truthy(c.Executable) THEN c.Executable.s ELSE <<>>
        exe_name == IF EndsWith(Lower(exe0), DotExe) THEN exe0 ELSE exe0 \o DotExe
        fail(e) == [err |-> e, invoked |-> <<>>, generated |-> NoOutput,
                    expansion |-> NoExpansion]
        compile(tokens, r) ==
            LET iss == Output("inno_generated.iss", rid, r.text)
                x == Expansion("package_windows", tpl.text, tokens, r)
            IN  IF ~r.ok
                THEN [err |-> [PackagingError("package_windows",
                                              "Unreplaced tokens remain in Inno template")
                                  EXCEPT !.names = r.names],
                      invoked |-> <<>>, generated |-> NoOutput, expansion |-> x]
                ELSE IF ~isccFound
                THEN [err |-> PackagingError("package_windows", "Inno Setup compiler not found"),
                      invoked |-> <<>>, generated |-> iss, expansion |-> x]
                ELSE IF ~isccOk
                THEN [err |-> PackagingError("package_windows", "Command failed"),
                      invoked |-> <<<<"iscc", rid>>>>, generated |-> iss, expansion |-> x]
                ELSE [err |-> NoErr, invoked |-> <<<<"iscc", rid>>>>, generated |-> iss,
                      expansion |-> x]
        expand(tokens) == compile(tokens, replace_tokens(tpl.text, tokens))
    IN  IF exe0 = <<>>
        THEN fail(PackagingError("package_windows", "Win.Executable missing from packaging.json"))
        ELSE IF ~exeOk
        THEN fail(PackagingError("package_windows", "Published executable not found"))
        ELSE IF Truthy(win_cfg.InnoScript) /\ ~(win_cfg.InnoScript.s = <<InnoPath>> /\ tpl.exists)
        THEN fail(PackagingError("package_windows", "Inno script template missing"))
        ELSE IF c.ProductName.t # "str"
        THEN fail(Unexpected("package_windows", "KeyError: 'ProductName'"))
        ELSE IF ~Truthy(win_cfg.InnoScript)
        THEN fail(Unexpected("package_windows", "IsADirectoryError"))
        ELSE expand(WindowsTokens(c, version, rid, exe_name, proj))

\* the tokens dict of package_macos, lines 770-780
MacTokens(c, version, exe_name, proj) ==
    LET mac_cfg == c.Mac
        icon_found == \/ (Truthy(mac_cfg.IconIcns) /\ mac_cfg.IconIcns.s = <<IcnsPath>>
                          /\ proj.assets)
                      \/ (Truthy(c.Project) /\ c.Project.s = <<ProjPath>> /\ proj.assets)
    IN  << Tok(Key.ProductName, c.ProductName.s),
           Tok(Key.BundleIdentifier, TextOf(c.BundleIdentifier)),
           Tok(Key.Version, version),
           Tok(Key.Executable, exe_name),
           Tok(Key.IconFile, IF icon_found THEN AppChars ELSE <<>>),
           Tok(Key.Category, <<>>),
           Tok(Key.MinimumSystemVersion, <<"1", "1", ".", "0">>),
           Tok(Key.Copyright, TextOf(c.CompanyName)),
           Tok(Key.PublisherUrl, TextOf(c.PublisherUrl)) >>

\* package_macos (reached on macOS only): tpl is the Info.plist template on
\* disk; exeOk tells whether the published executable exists, dmgOk whether
\* hdiutil exits with 0
package_macos(c, version, rid, proj, tpl, exeOk, dmgOk) ==
    LET mac_cfg == c.Mac
        exe0 == IF Truthy(c.Executable) THEN c.Executable.s
                ELSE IF c.Project.t = "str" THEN Stem(c.Project.s) ELSE <<>>
        exe_name == IF EndsWith(Lower(exe0), DotExe) THEN Upto(exe0, Len(exe0) - 4) ELSE exe0
        plist == IF mac_cfg.InfoPlist.t = "none" THEN <<PlistPath>> ELSE TextOf(mac_cfg.InfoPlist)
        fail(e) == [err |-> e, invoked |-> <<>>, generated |-> NoOutput,
                    expansion |-> NoExpansion]
        image(tokens, r) ==
            LET info == Output("Info.plist", rid, r.text)
                x == Expansion("package_macos", tpl.text, tokens, r)
            IN  IF ~r.ok
                THEN [err |-> [PackagingError("package_macos",
                                              "Unreplaced tokens remain in Inno template")
                                  EXCEPT !.names = r.names],
                      invoked |-> <<>>, generated |-> NoOutput, expansion |-> x]
                ELSE IF ~dmgOk
                THEN [err |-> PackagingError("package_macos", "Command failed"),
                      invoked |-> <<<<"hdiutil", rid>>>>, generated |-> info, expansion |-> x]
                ELSE [err |-> NoErr, invoked |-> <<<<"hdiutil", rid>>>>, generated |-> info,
                      expansion |-> x]
        expand(tokens) == image(tokens, replace_tokens(tpl.text, tokens))
    IN  IF ~Truthy(c.Executable) /\ c.Project.t # "str"
        THEN fail(Unexpected("package_macos", "KeyError: 'Project'"))
        ELSE IF c.ProductName.t # "str"
        THEN fail(Unexpected("package_macos", "KeyError: 'ProductName'"))
        ELSE IF ~Truthy(c.BundleIdentifier)
        THEN fail(PackagingError("package_macos", "Bundle identifier missing"))
        ELSE IF ~(plist = <<PlistPath>> /\ tpl.exists)
        THEN fail(PackagingError("package_macos", "Info.plist template missing"))
        ELSE IF ~exeOk
        THEN fail(PackagingError("package_macos", "Published executable not found for macOS build"))
        ELSE expand(MacTokens(c, version, exe_name, proj))

\* normalize_runtime_identifiers: ok = FALSE stands for its PackagingError
normalize_runtime_identifiers(value) ==
    IF value.t = "null" THEN [ok |-> TRUE, rids |-> <<>>]
    ELSE IF value.t = "str" THEN [ok |-> TRUE, rids |-> value.s]
    ELSE IF value.t = "list"
    THEN [ok |-> TRUE, rids |-> SelectSeq(value.s, LAMBDA item : ~IsSpace(item) /\ item # "")]
    ELSE [ok |-> FALSE, rids |-> <<>>]

(***************************************************************************)
(* main and the __main__ block                                             *)
(***************************************************************************)
\* lines 840-852 up to the loop: where main goes once the Windows stage is
\* over, with the error it raises and the line it logs on the way
AfterWin(c, plat) ==
    LET mac_cfg == c.Mac
        n == normalize_runtime_identifiers(
                 IF mac_cfg.RuntimeIdentifiers.t = "none" THEN List(DefaultRids)
                 ELSE mac_cfg.RuntimeIdentifiers)
        stop(e) == [pc |-> "failed", err |-> e, queue |-> <<>>, logged |-> <<>>]
    IN  IF ~DictTruthy(mac_cfg, MacKeys)
        THEN [pc |-> "finish", err |-> NoErr, queue |-> <<>>, logged |-> <<>>]
        ELSE IF plat # "mac"
        THEN [pc |-> "finish", err |-> NoErr, queue |-> <<>>,
              logged |-> <<"[mac] Skipping macOS packaging; requires running on macOS.">>]
        ELSE IF ~n.ok
        THEN stop(PackagingError("main", "Runtime identifiers must be a string or list of strings."))
        ELSE IF n.rids = <<>>
        THEN stop(PackagingError("main", "Mac.RuntimeIdentifiers is empty."))
        ELSE [pc |-> "publish_mac", err |-> NoErr, queue |-> n.rids, logged |-> <<>>]

\* lines 827-838 up to the call of publish_project
AfterVersion(c, plat, wasCreated, nargs) ==
    IF wasCreated /\ nargs = 1
    THEN [pc |-> "returned", err |-> NoErr, queue |-> <<>>, logged |-> <<>>]
    ELSE IF DictTruthy(c.Win, WinKeys) /\ plat = "win"
    THEN [pc |-> "publish_win", err |-> NoErr, queue |-> <<>>, logged |-> <<>>]
    ELSE AfterWin(c, plat)

WinRid(c) == IF c.Win.RuntimeIdentifier.t = "none" THEN "win-x64"
             ELSE c.Win.RuntimeIdentifier.s[1]

NoWrites == [cfg |-> 0, prefs |-> 0, proj |-> 0]
NoPublish == [rid |-> "", version |-> <<>>]

\* main, line 825: cfg, created = ensure_cfg()
EnsureCfg ==
    /\ pc = "ensure_cfg"
    /\ \E r \in {ensure_cfg(cfgFile, prefsFile, projFile, remote)} :
           /\ cfgFile' = r.file
           /\ prefsFile' = r.prefs
           /\ cfg' = r.cfg
           /\ created' = r.created
           /\ updates' = r.updates
           /\ out' = out \o r.logged
           /\ writes' = [writes EXCEPT !.cfg = r.cfgWrites, !.prefs = r.prefsWrites]
           /\ pc' = IF r.ok THEN "update_version" ELSE "failed"
           /\ err' = IF r.ok THEN NoErr ELSE PackagingError("ensure_cfg", r.msg)
           /\ recorded' = IF r.prefsWrites = 0 THEN recorded
                          ELSE Append(recorded,
                                      [auto |-> auto_bundle_prefix(r.cfg),
                                       prefix |-> extract_bundle_prefix(r.cfg.BundleIdentifier).s])
    /\ UNCHANGED <<projFile, remote, platform, templates, argc, anyPackaged, exitCode,
                   invoked, generated, expansion, publishDir, macQueue, run, hist>>

\* main, lines 826-848: update_project_version(cfg), then on to the first
\* packaging stage
UpdateProjectVersion ==
    /\ pc = "update_version"
    /\ \E r \in {update_project_version(cfg, projFile)},
          n \in {AfterVersion(cfg, platform, created, argc)} :
           /\ projFile' = r.proj
           /\ writes' = [writes EXCEPT !.proj = IF r.wrote THEN 1 ELSE 0]
           /\ IF r.err.kind # "none"
              THEN /\ pc' = "failed"
                   /\ err' = r.err
                   /\ UNCHANGED <<macQueue, out>>
              ELSE /\ pc' = n.pc
                   /\ err' = n.err
                   /\ macQueue' = n.queue
                   /\ out' = out \o n.logged
    /\ UNCHANGED <<cfgFile, prefsFile, remote, platform, templates, argc, anyPackaged, cfg,
                   created, updates, exitCode, invoked, generated, expansion, publishDir,
                   run, recorded, hist>>

\* main, line 836: publish_project(cfg, win_rid)
PublishWin ==
    /\ pc = "publish_win"
    /\ \E dotnetOk \in BOOLEAN :
         \E r \in {publish_project(cfg, WinRid(cfg), projFile, dotnetOk)} :
             /\ invoked' = invoked \o r.invoked
             /\ err' = r.err
             /\ pc' = IF r.err.kind = "none" THEN "package_win" ELSE "failed"
             /\ publishDir' = IF r.err.kind = "none"
                              THEN [rid |-> WinRid(cfg), version |-> r.version]
                              ELSE publishDir
    /\ UNCHANGED <<cfgFile, prefsFile, projFile, remote, platform, templates, argc,
                   anyPackaged, cfg, created, updates, out, exitCode, generated, expansion,
                   macQueue, writes, run, recorded, hist>>

\* main, lines 837-848: package_windows(...), then on to the macOS stage
PackageWindows ==
    /\ pc = "package_win"
    /\ \E exeOk \in BOOLEAN, isccFound \in BOOLEAN, isccOk \in BOOLEAN :
         \E r \in {package_windows(cfg, publishDir.version, publishDir.rid, projFile,
                                    templates.inno, exeOk, isccFound, isccOk)},
            n \in {AfterWin(cfg, platform)} :
             /\ invoked' = invoked \o r.invoked
             /\ generated' = generated \o r.generated
             /\ expansion' = IF r.expansion.called THEN r.expansion ELSE expansion
             /\ IF r.err.kind # "none"
                THEN /\ pc' = "failed"
                     /\ err' = r.err
                     /\ UNCHANGED <<anyPackaged, macQueue, out>>
                ELSE /\ anyPackaged' = TRUE
                     /\ pc' = n.pc
                     /\ err' = n.err
                     /\ macQueue' = n.queue
                     /\ out' = out \o <<"[win] Installer written">> \o n.logged
    /\ UNCHANGED <<cfgFile, prefsFile, projFile, remote, platform, templates, argc, cfg,
                   created, updates, exitCode, publishDir, writes, run, recorded, hist>>

\* main, line 850: publish_project(cfg, mac_rid) for the next runtime identifier
PublishMac ==
    /\ pc = "publish_mac"
    /\ \E dotnetOk \in BOOLEAN :
         \E r \in {publish_project(cfg, Head(macQueue), projFile, dotnetOk)} :
             /\ invoked' = invoked \o r.invoked
             /\ err' = r.err
             /\ pc' = IF r.err.kind = "none" THEN "package_mac" ELSE "failed"
             /\ publishDir' = IF r.err.kind = "none"
                              THEN [rid |-> Head(macQueue), version |-> r.version]
                              ELSE publishDir
    /\ UNCHANGED <<cfgFile, prefsFile, projFile, remote, platform, templates, argc,
                   anyPackaged, cfg, created, updates, out, exitCode, generated, expansion,
                   macQueue, writes, run, recorded, hist>>

\* main, lines 851-852: package_macos(...), then the next turn of the loop
PackageMacos ==
    /\ pc = "package_mac"
    /\ \E exeOk \in BOOLEAN, dmgOk \in BOOLEAN :
         \E r \in {package_macos(cfg, publishDir.version, publishDir.rid, projFile,
                                  templates.plist, exeOk, dmgOk)} :
             /\ invoked' = invoked \o r.invoked
             /\ generated' = generated \o r.generated
             /\ expansion' = IF r.expansion.called THEN r.expansion ELSE expansion
             /\ err' = r.err
             /\ IF r.err.kind # "none"
                THEN /\ pc' = "failed"
                     /\ UNCHANGED <<anyPackaged, macQueue, out>>
                ELSE /\ macQueue' = Tail(macQueue)
                     /\ anyPackaged' = (anyPackaged \/ Tail(macQueue) = <<>>)
                     /\ pc' = IF Tail(macQueue) = <<>> THEN "finish" ELSE "publish_mac"
                     /\ out' = Append(out, "[mac] Disk image written")
    /\ UNCHANGED <<cfgFile, prefsFile, projFile, remote, platform, templates, argc, cfg,
                   created, updates, exitCode, publishDir, writes, run, recorded, hist>>

\* the end of a run in which the handler of lines 861-863 prints nothing and
\* leaves the status at 0: what the abort property C12 rules out
ExitSilent ==
    /\ pc \in {"finish", "returned", "failed"}
    /\ pc' = "done"
    /\ exitCode' = 0
    /\ out' = IF pc = "finish" /\ ~anyPackaged
              THEN Append(out, "No packaging targets were executed.")
              ELSE out
    /\ UNCHANGED <<cfgFile, prefsFile, projFile, remote, platform, templates, argc,
                   anyPackaged, cfg, created, updates, err, invoked, generated, expansion,
                   publishDir, macQueue, writes, run, recorded, hist>>

\* lines 854-866: the end of main and the __main__ block
Exit ==
    /\ pc \in {"finish", "returned", "failed"}
    /\ pc' = "done"
    /\ exitCode' = IF pc = "failed" THEN 1 ELSE 0
    /\ out' = IF pc = "failed" /\ err.kind = "PackagingError" THEN Append(out, "ERROR: ")
              ELSE IF pc = "failed" THEN Append(out, "UNEXPECTED ERROR: ")
              ELSE IF pc = "finish" /\ ~anyPackaged
              THEN Append(out, "No packaging targets were executed.")
              ELSE out
    /\ UNCHANGED <<cfgFile, prefsFile, projFile, remote, platform, templates, argc,
                   anyPackaged, cfg, created, updates, err, invoked, generated, expansion,
                   publishDir, macQueue, writes, run, recorded, hist>>

(***************************************************************************)
(* The inputs of the model: documents, descriptors, remotes, preference    *)
(* documents and templates a run can find on disk.                         *)
(***************************************************************************)
\* number of invocations of the tool in one behaviour
MaxRuns == 3

\* the texts the documents, descriptors and preference files of the
\* behaviours hold
Sample ==
    [ Ab |-> <<"A", "b">>,
      MyApp |-> <<"M", "y", " ", "A", "p", "p">>,
      App |-> <<"A", "p", "p">>,
      ComX |-> <<"c", "o", "m", ".", "x", ".", "a", "p", "p">>,
      ComY |-> <<"c", "o", "m", ".", "y", ".", "a", "p", "p">>,
      XApp |-> <<"x", ".", "a", "p", "p">>,
      V12 |-> <<"1", ".", "2">>,
      V12pad |-> <<" ", "1", ".", "2">>,
      V123 |-> <<"1", ".", "2", ".", "3">>,
      V20 |-> <<"2", ".", "0">>,
      Me |-> Https \o <<"m", "e">>,
      Guid |-> <<"{", "3", "c", "-", "4", "d", "}">>,
      GuidPlain |-> <<"a", "b", "1">> ]

BundleIdentifiers == {NoKey, Str(Sample.ComX), Str(Sample.ComY), Str(Sample.XApp)}
Versions == {NoKey, Str(Sample.V12), Str(Sample.V12pad), Str(Sample.V123), Num(Sample.V12)}
PublisherUrls == {NoKey, Str(<<>>), Str(Sample.Me)}
Companies == {NoKey, Str(Sample.Ab)}
Projects == {NoKey, Str(<<ProjPath>>)}
MacPartialRids == [t |-> "dict", RuntimeIdentifiers |-> List(<<"osx-x64">>),
                   IconIcns |-> Str(<<"my.icns">>), InfoPlist |-> NoKey]
MacPartialPlist == [t |-> "dict", RuntimeIdentifiers |-> List(<<>>),
                    IconIcns |-> NoKey, InfoPlist |-> Str(<<PlistPath>>)]
MacFull == [t |-> "dict", RuntimeIdentifiers |-> List(DefaultRids),
            IconIcns |-> Str(<<>>), InfoPlist |-> Str(<<PlistPath>>)]
Macs == {NoMac, NullMac, EmptyMacDict, MacPartialRids, MacPartialPlist, MacFull}
WinFull == [t |-> "dict", InnoScript |-> Str(<<InnoPath>>), IconIco |-> Str(<<>>),
            GUID |-> Str(Sample.Guid), RuntimeIdentifier |-> Str(<<"win-x64">>)]

\* a complete document, as a user keeps it
FullDoc == [ProductName |-> Str(Sample.MyApp), CompanyName |-> Str(Sample.Ab),
            PublisherUrl |-> Str(Sample.Me), BundleIdentifier |-> Str(Sample.ComX),
            Executable |-> Str(Sample.App), Project |-> Str(<<ProjPath>>),
            Version |-> Str(Sample.V12), Win |-> WinFull, Mac |-> MacFull]
\* a document with none of the keys ensure_cfg fills
BareDoc == [FullDoc EXCEPT !.BundleIdentifier = NoKey, !.Version = NoKey,
                           !.PublisherUrl = NoKey, !.Mac = NoMac]

Docs == {[FullDoc EXCEPT !.BundleIdentifier = b, !.Version = v, !.Mac = m,
                         !.PublisherUrl = u, !.Project = p, !.CompanyName = co] :
            b \in BundleIdentifiers, v \in Versions, m \in Macs, u \in PublisherUrls,
            p \in Projects, co \in Companies}

\* project descriptors
TxHead == <<"<Project>", "\n", "<PropertyGroup>", "\n",
            "<TargetFramework>", "n", "8", "</TargetFramework>", "\n">>
TxTail == <<"</PropertyGroup>", "\n", "</Project>", "\n">>
TxVersion(v) == <<"<Version>">> \o v \o <<"</Version>", "\n">>
TxCompany == <<"<Company>", "A", "b", "</Company>", "\n">>
Descriptor(text, bom, assets) == [exists |-> TRUE, bom |-> bom, text |-> text, assets |-> assets]
NoDescriptor == [exists |-> FALSE, bom |-> FALSE, text |-> <<>>, assets |-> FALSE]
PlainDescriptor == Descriptor(TxHead \o TxTail, FALSE, TRUE)
Descriptors ==
    { NoDescriptor,
      PlainDescriptor,
      Descriptor(TxHead \o TxVersion(Sample.V20) \o TxTail, TRUE, FALSE),
      Descriptor(TxHead \o TxVersion(Sample.V123) \o TxTail, FALSE, FALSE),
      Descriptor(TxHead \o TxCompany \o TxVersion(Sample.V12pad) \o TxTail, FALSE, TRUE),
      Descriptor(TxHead \o TxCompany \o TxTail, TRUE, FALSE),
      Descriptor(<<"<Project>", "</Project>">>, FALSE, FALSE),
      Descriptor(<<"<Project>", "<PropertyGroup>", "</PropertyGroup>", "</Project>">>,
                 TRUE, FALSE),
      Descriptor(<<"<Project>", "<PropertyGroup Condition>", "</PropertyGroup>">>
                 \o Tail(TxHead) \o TxTail, FALSE, FALSE),
      Descriptor(<<"<Project>", "<PropertyGroup Condition>", "</PropertyGroup>",
                   "</Project>">>, FALSE, FALSE),
      Descriptor(TxHead \o TxVersion(Sample.V20) \o <<"</PropertyGroup>", "<PropertyGroup>">>
                 \o TxVersion(Sample.V12) \o TxTail, FALSE, FALSE),
      Descriptor(<<"<Project>", "<PropertyGroup>", "<Version>", "2", ".", "0">>, FALSE, FALSE) }

\* urls of remote "origin"
HostOwnerRepo == <<"h", "/", "o", "/", "r">>
DotGit == <<".", "g", "i", "t">>
Remotes ==
    { <<>>,
      Https \o HostOwnerRepo \o DotGit,
      Http \o HostOwnerRepo,
      GitAt \o <<"h", ":", "o", "/", "r">> \o DotGit,
      Https \o <<"h", "/", "o">>,
      <<"f", "t", "p", ":", "/", "/">> \o HostOwnerRepo }

\* preference documents
NoPrefs == [Map |-> EmptyMap, Legacy |-> NoKey]
Preferences ==
    { NoPrefs,
      [Map |-> [k \in {ComDot \o <<"a", "b", ".">>} |-> Str(<<"c", "o", "m", ".", "z", ".">>)], Legacy |-> NoKey],
      [Map |-> EmptyMap, Legacy |-> Str(<<"o", "r", "g", ".", "q">>)] }

\* templates
Ph(k) == Open2 \o k \o Close2
TemplateTexts ==
    { Ph(Key.ProductName) \o <<" ">> \o Ph(Key.Version) \o <<"\n">> \o Ph(Key.PublisherUrl),
      <<"I", "d", "=">> \o Ph(Key.AppId) \o Ph(Key.Version),
      Ph(Key.Foo) \o Ph(Key.Version) \o Ph(Key.Bar) \o Ph(Key.Foo),
      Open2 \o <<" ">> \o Key.Version \o <<" ">> \o Close2,
      Open2 \o Ph(Key.CompanyName) \o Close2,
      Ph(Key.BundleIdentifier) \o Ph(Key.Copyright),
      <<"{">> \o Ph(Key.Version) \o <<"}", "}">>,
      <<>> }
Template(text) == [exists |-> TRUE, text |-> text]
NoTemplate == [exists |-> FALSE, text |-> <<>>]
TemplateFiles == {NoTemplate} \cup {Template(x) : x \in TemplateTexts}
PlainTemplates == [inno |-> Template(Ph(Key.ProductName) \o Ph(Key.Version)),
                   plist |-> Template(Ph(Key.BundleIdentifier) \o Ph(Key.Version))]

\* documents of the packaging scenarios
PackDocs ==
    { FullDoc,
      [FullDoc EXCEPT !.Mac = NullMac],
      [FullDoc EXCEPT !.Win = NoWin, !.Mac = MacPartialRids],
      [FullDoc EXCEPT !.ProductName = NoKey],
      [FullDoc EXCEPT !.Executable = NoKey, !.Project = NoKey],
      [FullDoc EXCEPT !.Win = [WinFull EXCEPT !.GUID = Str(Sample.GuidPlain)],
                      !.Mac = [MacFull EXCEPT !.RuntimeIdentifiers = List(<<" ">>)]],
      [FullDoc EXCEPT !.Win = [WinFull EXCEPT !.InnoScript = NoKey, !.GUID = NoKey],
                      !.Version = Str(Sample.V12pad)],
      BareDoc }

NonDict == [isDict |-> FALSE, doc |-> EmptyDoc]
Item(d) == [isDict |-> TRUE, doc |-> d]
ListDocs == {FullDoc, BareDoc, [BareDoc EXCEPT !.Version = Str(Sample.V123)],
             [FullDoc EXCEPT !.Version = Str(Sample.V12pad)]}
ListFiles ==
    {ListFile(<<>>), ListFile(<<NonDict>>), ListFile(<<NonDict, Item(FullDoc)>>)}
    \cup {ListFile(<<Item(d)>>) : d \in ListDocs}
    \cup {ListFile(<<Item(d), Item(FullDoc)>>) : d \in ListDocs}
    \cup {ListFile(<<Item(d), NonDict>>) : d \in ListDocs}

Scenario(file, prefs, proj, rem, plat, tpls, nargs) ==
    [file |-> file, prefs |-> prefs, proj |-> proj, remote |-> rem, platform |-> plat,
     templates |-> tpls, argc |-> nargs]

\* every document, in one environment
DocScenarios ==
    {Scenario(DictFile(d), NoPrefs, PlainDescriptor, Https \o HostOwnerRepo \o DotGit,
              "linux", PlainTemplates, 1) : d \in Docs}
\* every environment, for a few documents and for no document
EnvScenarios ==
    {Scenario(f, pr, pj, rem, "linux", PlainTemplates, 1) :
        f \in {NoFile, DictFile(BareDoc), DictFile([BareDoc EXCEPT !.Project = NoKey,
                                                               !.Mac = EmptyMacDict])},
        pr \in Preferences, pj \in Descriptors, rem \in Remotes}
\* every shape of a list-wrapped document
ListScenarios ==
    {Scenario(f, NoPrefs, pj, <<>>, "linux", PlainTemplates, 1) :
        f \in ListFiles, pj \in {NoDescriptor, PlainDescriptor}}
\* every template and platform
PackScenarios ==
    {Scenario(f, NoPrefs, pj, <<>>, plat, [inno |-> tpl, plist |-> tpl], nargs) :
        f \in {NoFile} \cup {DictFile(d) : d \in PackDocs},
        pj \in {NoDescriptor, PlainDescriptor},
        plat \in {"win", "mac"}, tpl \in TemplateFiles, nargs \in {1, 2}}

Scenarios == DocScenarios \cup EnvScenarios \cup ListScenarios \cup PackScenarios

\* the projects a user may turn to between two runs
SwitchScenarios ==
    {Scenario(DictFile([BareDoc EXCEPT !.BundleIdentifier = b, !.CompanyName = co]),
              NoPrefs, PlainDescriptor, <<>>, "linux", PlainTemplates, 1) :
        b \in BundleIdentifiers, co \in Companies}
    \cup {Scenario(NoFile, NoPrefs, pj, <<>>, "linux", PlainTemplates, 1) :
            pj \in {PlainDescriptor, Descriptor(TxHead \o TxCompany \o TxTail, TRUE, FALSE)}}

(***************************************************************************)
(* The specification                                                       *)
(***************************************************************************)
NoHist == [file |-> NoFile, prefs |-> NoPrefs, proj |-> NoDescriptor, rerun |-> FALSE,
           propagated |-> FALSE, prevCfg |-> EmptyDoc, prevUpdates |-> <<>>, recorded |-> <<>>]

\* the state of a process that has just started
Fresh ==
    /\ pc = "ensure_cfg"
    /\ cfg = EmptyDoc
    /\ created = FALSE
    /\ updates = <<>>
    /\ err = NoErr
    /\ out = <<>>
    /\ exitCode = -1
    /\ invoked = <<>>
    /\ generated = NoOutput
    /\ expansion = NoExpansion
    /\ publishDir = NoPublish
    /\ macQueue = <<>>
    /\ anyPackaged = FALSE
    /\ writes = NoWrites

\* a new process starts
Restart ==
    /\ pc' = "ensure_cfg"
    /\ cfg' = EmptyDoc
    /\ created' = FALSE
    /\ updates' = <<>>
    /\ err' = NoErr
    /\ out' = <<>>
    /\ exitCode' = -1
    /\ invoked' = <<>>
    /\ generated' = NoOutput
    /\ expansion' = NoExpansion
    /\ publishDir' = NoPublish
    /\ macQueue' = <<>>
    /\ anyPackaged' = FALSE
    /\ writes' = NoWrites

Init ==
    /\ \E s \in Scenarios :
        /\ cfgFile = s.file
        /\ prefsFile = s.prefs
        /\ projFile = s.proj
        /\ remote = s.remote
        /\ platform = s.platform
        /\ templates = s.templates
        /\ argc = s.argc
        /\ hist = [NoHist EXCEPT !.file = s.file, !.prefs = s.prefs, !.proj = s.proj]
    /\ Fresh
    /\ run = 1
    /\ recorded = <<>>

\* the tool is started again in the same repository, nothing else having
\* touched the files
Rerun ==
    /\ pc = "done"
    /\ run < MaxRuns
    /\ run' = run + 1
    /\ hist' = [file |-> cfgFile, prefs |-> prefsFile, proj |-> projFile,
                rerun |-> (err.step # "ensure_cfg"),
                propagated |-> (err.step \notin {"ensure_cfg", "update_project_version"}),
                prevCfg |-> cfg,
                prevUpdates |-> updates, recorded |-> recorded]
    /\ Restart
    /\ UNCHANGED <<cfgFile, prefsFile, projFile, remote, platform, templates, argc,
                   recorded>>

\* the tool is started in another repository of the same user: the
\* preference document stays, the files of the repository are another's
SwitchProject ==
    /\ pc = "done"
    /\ run < MaxRuns
    /\ run' = run + 1
    /\ \E s \in SwitchScenarios :
        /\ cfgFile' = s.file
        /\ projFile' = s.proj
        /\ remote' = s.remote
        /\ templates' = s.templates
        /\ hist' = [NoHist EXCEPT !.file = s.file, !.prefs = prefsFile, !.proj = s.proj,
                                  !.recorded = recorded]
    /\ Restart
    /\ UNCHANGED <<prefsFile, platform, argc, recorded>>

Next ==
    \/ EnsureCfg
    \/ UpdateProjectVersion
    \/ PublishWin
    \/ PackageWindows
    \/ PublishMac
    \/ PackageMacos
    \/ Exit
    \/ Rerun
    \/ SwitchProject

Spec == Init /\ [][Next]_vars

(***************************************************************************)
(* replace_tokens on its own: a template and a tokens dict, whose entries  *)
(* come in any insertion order, and one call.                              *)
(***************************************************************************)
TokenTemplates ==
    { Ph(Key.Foo) \o Ph(Key.Bar) \o Ph(Key.Version),
      Open2 \o Ph(Key.Foo) \o Close2,
      Ph(Key.Foo) \o <<"x">> \o Ph(Key.CompanyName) \o Ph(Key.AppId) \o Ph(Key.CompanyName),
      Open2 \o <<" ">> \o Key.Foo \o <<" ">> \o Close2 \o Ph(Key.Bar),
      Ph(Key.Bar) \o <<"=">> \o Ph(Key.Bar),
      <<"{">> \o Ph(Key.Foo) \o Key.Bar \o <<"}", "}">> }
TokenDicts ==
    { {Tok(Key.Foo, <<"a">>), Tok(Key.Bar, <<"b">>), Tok(Key.Version, Sample.V12)},
      {Tok(Key.Foo, Key.Bar), Tok(Key.Bar, <<"b">>), Tok(Key.Version, Sample.V12)},
      {Tok(Key.Foo, <<"{">>), Tok(Key.Bar, <<"{">> \o Key.Version \o Close2),
       Tok(Key.Version, Sample.V12)},
      {Tok(Key.Foo, Ph(Key.Bar)), Tok(Key.Bar, <<"b">>), Tok(Key.Version, <<>>)} }
\* the insertion orders of a dict
Orders(entries) ==
    {q \in [1..Cardinality(entries) -> entries] : \A e \in entries : \E i \in DOMAIN q : q[i] = e}

InitTokens ==
    /\ \E text \in TokenTemplates, d \in TokenDicts :
          \E tokens \in Orders(d) :
              /\ templates = [inno |-> Template(text), plist |-> NoTemplate]
              /\ expansion = [NoExpansion EXCEPT !.template = text, !.tokens = tokens]
    /\ pc = "replace_tokens"
    /\ cfgFile = NoFile /\ prefsFile = NoPrefs /\ projFile = NoDescriptor
    /\ remote = <<>> /\ platform = "linux" /\ argc = 1
    /\ cfg = EmptyDoc /\ created = FALSE /\ updates = <<>>
    /\ err = NoErr /\ out = <<>> /\ exitCode = -1
    /\ invoked = <<>> /\ generated = NoOutput /\ publishDir = NoPublish
    /\ macQueue = <<>> /\ anyPackaged = FALSE /\ writes = NoWrites
    /\ run = 1 /\ recorded = <<>> /\ hist = NoHist

\* one call of replace_tokens, lines 591-601
ReplaceTokens ==
    /\ pc = "replace_tokens"
    /\ \E r \in {replace_tokens(templates.inno.text, expansion.tokens)} :
           /\ expansion' = Expansion("replace_tokens", templates.inno.text, expansion.tokens, r)
           /\ err' = IF r.ok THEN NoErr
                     ELSE [PackagingError("replace_tokens", "Unreplaced tokens remain")
                              EXCEPT !.names = r.names]
           /\ generated' = IF r.ok THEN Output("inno_generated.iss", "", r.text) ELSE generated
           /\ pc' = IF r.ok THEN "replaced" ELSE "failed"
    /\ UNCHANGED <<cfgFile, prefsFile, projFile, remote, platform, templates, argc,
                   anyPackaged, cfg, created, updates, out, exitCode, invoked, publishDir,
                   macQueue, writes, run, recorded, hist>>

SpecTokens == InitTokens /\ [][ReplaceTokens]_vars

(***************************************************************************)
(* Properties.  A run starts from hist.file; ensure_cfg has returned or    *)
(* raised once pc has left "ensure_cfg".                                   *)
(***************************************************************************)
PassDone == pc # "ensure_cfg"
\* ensure_cfg returned in the current run
PassOk == PassDone /\ err.step # "ensure_cfg"
\* the run found a document ensure_cfg backfills: an object, or a list that
\* starts with one
Existing ==
    \/ hist.file.kind = "dict"
    \/ (hist.file.kind = "list" /\ hist.file.items # <<>> /\ hist.file.items[1].isDict)
\* that document, and the document on disk now
Before == IF hist.file.kind = "dict" THEN hist.file.doc ELSE hist.file.items[1].doc
After == cfgFile.doc

\* the readings of url as http(s)://host/owner/repo: host, owner and repo
\* are not empty and hold no slash
HttpReadings(url) ==
    UNION {{[scheme |-> p, host |-> SubSeq(url, Len(p) + 1, x[1] - 1),
             owner |-> SubSeq(url, x[1] + 1, x[2] - 1)] :
              x \in {y \in (1..Len(url)) \X (1..Len(url)) :
                        /\ StartsWith(url, p)
                        /\ Len(p) + 1 < y[1] /\ y[1] + 1 < y[2] /\ y[2] < Len(url)
                        /\ \A k \in (Len(p) + 1)..Len(url) :
                              url[k] = "/" <=> k \in {y[1], y[2]}}} :
           p \in {Https, Http}}
\* the readings of url as git@host:owner/repo: the host holds no colon, owner
\* and repo no slash, and none is empty
SshReadings(url) ==
    {[scheme |-> GitAt, host |-> SubSeq(url, Len(GitAt) + 1, x[1] - 1),
      owner |-> SubSeq(url, x[1] + 1, x[2] - 1)] :
       x \in {y \in (1..Len(url)) \X (1..Len(url)) :
                 /\ StartsWith(url, GitAt)
                 /\ Len(GitAt) + 1 < y[1] /\ y[1] + 1 < y[2] /\ y[2] < Len(url)
                 /\ url[y[1]] = ":"
                 /\ \A k \in (Len(GitAt) + 1)..(y[1] - 1) : url[k] # ":"
                 /\ \A k \in (y[1] + 1)..Len(url) : url[k] = "/" <=> k = y[2]}}
RemoteReadings(url) == HttpReadings(url) \cup SshReadings(url)

C2_SecondPassChangesNothing ==
    (hist.rerun /\ PassDone) =>
        /\ err.step # "ensure_cfg"
        /\ updates = <<>>
        /\ writes.cfg = 0
        /\ cfgFile = hist.file
        /\ cfg = hist.prevCfg
        /\ \A i \in 1..Len(out) : out[i] # "[config] Updated packaging.json:"

\* the second pass has run after a first pass that changed the document
C2_Witness ==
    /\ hist.rerun
    /\ pc = "update_version"
    /\ hist.prevUpdates # <<>>
    /\ cfg = hist.prevCfg

\* the names of the placeholders of text: a run of [A-Za-z0-9_] between
\* "{{" and "}}", white space allowed on either side of it
PlaceholdersOf(text) ==
    LET opens == {i \in 1..(Len(text) - 1) : text[i] = "{" /\ text[i + 1] = "{"}
        closes == {j \in 1..(Len(text) - 1) : text[j] = "}" /\ text[j + 1] = "}"}
        Match(i, a, b, j) ==
            /\ a <= b
            /\ \A k \in (i + 2)..(a - 1) : IsSpace(text[k])
            /\ \A k \in a..b : IsWord(text[k])
            /\ \A k \in (b + 1)..(j - 1) : IsSpace(text[k])
    IN  UNION {UNION {{SubSeq(text, y[1], y[2]) :
                          y \in {z \in ((i + 2)..(j - 1)) \X ((i + 2)..(j - 1)) :
                                    Match(i, z[1], z[2], j)}} :
                      j \in {c \in closes : c > i}} :
               i \in opens}

StrictlySorted(names) == \A i \in 1..(Len(names) - 1) : StrLess(names[i], names[i + 1])

TokenKeys(tokens) == {tokens[i].key : i \in DOMAIN tokens}
ValueOf(tokens, k) == tokens[CHOOSE i \in DOMAIN tokens : tokens[i].key = k].value
\* the occurrences of "{{" key "}}" in text, for the keys of tokens
Occurs(text, k) == \E i \in 1..Len(text) : StartsWith(From(text, i - 1), Ph(k))
\* every brace of text belongs to an occurrence of "{{" key "}}"
PlainTemplate(text, tokens) ==
    \A i \in 1..Len(text) :
        text[i] \in {"{", "}"} =>
            \E k \in TokenKeys(tokens) :
                \E j \in (i - Len(Ph(k)) + 1)..i :
                    j >= 1 /\ StartsWith(From(text, j - 1), Ph(k))
\* the values of the keys that occur in text hold no brace
PlainValues(text, tokens) ==
    \A k \in TokenKeys(tokens) :
        Occurs(text, k) =>
            \A i \in 1..Len(ValueOf(tokens, k)) : ValueOf(tokens, k)[i] \notin {"{", "}"}
\* text with every "{{" key "}}" replaced by the value of key, in one pass
RECURSIVE Expand(_, _)
Expand(text, tokens) ==
    IF text = <<>> THEN <<>>
    ELSE IF \E k \in TokenKeys(tokens) : StartsWith(text, Ph(k))
    THEN LET key == CHOOSE k \in TokenKeys(tokens) : StartsWith(text, Ph(k))
         IN  ValueOf(tokens, key) \o Expand(From(text, Len(Ph(key))), tokens)
    ELSE <<Head(text)>> \o Expand(Tail(text), tokens)

IsCompiler(call) == call[1] \in {"iscc", "hdiutil"}
OutputFor(call) == IF call[1] = "iscc" THEN "inno_generated.iss" ELSE "Info.plist"

C3_WitnessPlain ==
    /\ expansion.called /\ expansion.ok
    /\ expansion.template = Ph(Key.ProductName) \o <<" ">> \o Ph(Key.Version) \o <<"\n">>
                            \o Ph(Key.PublisherUrl)
    /\ PlainTemplate(expansion.template, expansion.tokens)
    /\ invoked # <<>> /\ IsCompiler(invoked[Len(invoked)])

\* the document the run starts from has no BundleIdentifier
BundleUnsetAtStart ==
    hist.file.kind = "absent" \/ (Existing /\ ~Truthy(Before.BundleIdentifier))
\* the company name and the product name the identifier is derived from
StartCompany ==
    IF hist.file.kind = "absent" THEN read_csproj_metadata(hist.proj).CompanyName
    ELSE Before.CompanyName
StartSlug ==
    IF hist.file.kind = "absent" THEN AppChars
    ELSE SelectSeq(Lower(Before.ProductName.s), IsAlnum)
StartAuto == auto_bundle_prefix([CompanyName |-> StartCompany])
\* the prefixes remember_bundle_prefix had saved for auto when the run started
RecordedFor(auto) == {i \in 1..Len(hist.recorded) : hist.recorded[i].auto = auto}
LatestFor(auto) ==
    hist.recorded[CHOOSE i \in RecordedFor(auto) : \A j \in RecordedFor(auto) : j <= i].prefix

\* C4 (as amended): once remember_bundle_prefix has saved prefixes for an
\* auto-prefix A, a later pass over a project whose company name yields A
\* and whose BundleIdentifier is unset (no document, or the key missing)
\* produces the prefix saved last for A followed by the product slug.
C4_LatestPrefixPropagates ==
    (PassOk /\ BundleUnsetAtStart /\ RecordedFor(StartAuto) # {}) =>
        /\ cfg.BundleIdentifier = Str(LatestFor(StartAuto) \o StartSlug)
        /\ After.BundleIdentifier = cfg.BundleIdentifier

\* C4 as stated: every prefix once saved for A is the one every later pass
\* uses
C4_AsStated ==
    (PassOk /\ BundleUnsetAtStart) =>
        \A i \in RecordedFor(StartAuto) :
            cfg.BundleIdentifier = Str(hist.recorded[i].prefix \o StartSlug)

\* a pass has used a saved prefix that differs from the auto-prefix
C4_Witness ==
    /\ pc = "update_version"
    /\ BundleUnsetAtStart
    /\ RecordedFor(StartAuto) # {}
    /\ LatestFor(StartAuto) # StartAuto
    /\ cfg.BundleIdentifier = Str(LatestFor(StartAuto) \o StartSlug)

VersionMessages == {"Version must be a non-empty string.",
                    "Version must use major.minor format (e.g. 1.2)."}

\* C5 as stated: after a pass that completes, Version is a string matching
\* \d+\.\d+ in the document on disk and in the document handed to the
\* driver, and a pass over a document whose Version does not match fails
C5_AsStated ==
    /\ PassOk =>
          /\ cfg.Version.t = "str" /\ IsMajorMinor(cfg.Version.s)
          /\ cfgFile.kind = "dict"
          /\ After.Version.t = "str" /\ IsMajorMinor(After.Version.s)
    /\ (Existing /\ PassDone /\ TruthyV(Before.Version)
        /\ ~(Before.Version.t = "str" /\ IsMajorMinor(Before.Version.s))) =>
          err.step = "ensure_cfg" /\ err.msg \in VersionMessages

\* the document the run starts from has no Version
VersionUnsetAtStart ==
    hist.file.kind = "absent" \/ (Existing /\ ~TruthyV(Before.Version))
\* the version of the project descriptor when it passes validation, the
\* default otherwise
DescriptorOrDefault ==
    IF /\ hist.proj.exists
       /\ Truthy(read_csproj_metadata(hist.proj).Version)
       /\ IsMajorMinor(Strip(read_csproj_metadata(hist.proj).Version.s))
    THEN Str(Strip(read_csproj_metadata(hist.proj).Version.s))
    ELSE Str(DEFAULT_VERSION)

\* C6 as stated: a pass that has to supply Version (the key missing, or no
\* document and a descriptor to make one from) completes, with the version
\* of the project descriptor when that passes validation and with "0.1"
\* otherwise
C6_AsStated ==
    (PassDone /\ VersionUnsetAtStart /\ (hist.file.kind = "absent" => hist.proj.exists)) =>
        /\ err.step # "ensure_cfg"
        /\ cfg.Version = DescriptorOrDefault

\* C7 (as amended): a list whose first element is an object, whatever
\* follows it, is replaced by that first element and packaging.json is
\* rewritten in object form before backfill starts; an empty list and a list
\* whose first element is not an object abort the run with a packaging error
\* and leave the file as it was.
C7_ListLoad ==
    (hist.file.kind = "list" /\ PassDone) =>
        IF hist.file.items # <<>> /\ hist.file.items[1].isDict
        THEN /\ cfgFile.kind = "dict"
             /\ out # <<>>
             /\ out[1] = "[config] Normalised legacy packaging.json structure."
             /\ err.step = "ensure_cfg" =>
                   /\ err.msg \in VersionMessages
                   /\ cfgFile = DictFile(hist.file.items[1].doc)
                   /\ writes.cfg = 1
             /\ err.step # "ensure_cfg" =>
                   /\ After = IF updates = <<>> THEN hist.file.items[1].doc ELSE cfg
                   /\ writes.cfg = IF updates = <<>> THEN 1 ELSE 2
        ELSE /\ pc \in {"failed", "done"}
             /\ err = PackagingError("ensure_cfg", "Unexpected packaging.json structure.")
             /\ cfgFile = hist.file
             /\ writes.cfg = 0

\* C7 as stated: a list that does not hold exactly one element aborts the
\* run and leaves the file as it was
C7_AsStated ==
    (hist.file.kind = "list" /\ PassDone /\ Len(hist.file.items) # 1) =>
        /\ err = PackagingError("ensure_cfg", "Unexpected packaging.json structure.")
        /\ cfgFile = hist.file

\* a list of two objects has been replaced by its first element
C7_Witness ==
    /\ hist.file.kind = "list"
    /\ Len(hist.file.items) = 2
    /\ hist.file.items[1].isDict /\ hist.file.items[2].isDict
    /\ pc = "update_version"
    /\ cfgFile = DictFile(hist.file.items[1].doc)

\* the document the run starts from names a project descriptor that does
\* not exist
MissingProject ==
    hist.file.kind = "dict" /\ Truthy(Before.Project) /\ ~hist.proj.exists

\* C8 (as amended): in a run over an existing document whose Project path is
\* missing on disk, ensure_cfg (load, backfill, persist) never fails because
\* of the missing descriptor, and when it returns, the run is ended by the
\* packaging error "Project file not found" that update_project_version
\* raises: the descriptor is not written and publish_project is not reached.
C8_FatalAtVersionPropagation ==
    MissingProject =>
        /\ err.step = "ensure_cfg" => err.msg \in VersionMessages
        /\ pc \notin {"publish_win", "package_win", "publish_mac", "package_mac",
                      "finish", "returned"}
        /\ invoked = <<>>
        /\ writes.proj = 0
        /\ (PassOk /\ pc # "update_version") =>
              err = PackagingError("update_project_version", "Project file not found")

\* C8 as stated: the pass with the version propagation completes without a
\* packaging error, and "Project file not found" is raised by publish_project
C8_AsStated ==
    MissingProject =>
        /\ PassOk => err.step # "update_project_version"
        /\ err.msg = "Project file not found" => err.step = "publish_project"

\* on Windows, with a Win section to package, the run has ended in
\* update_project_version
C8_Witness ==
    /\ MissingProject
    /\ platform = "win" /\ DictTruthy(cfg.Win, WinKeys)
    /\ pc = "failed"
    /\ err = PackagingError("update_project_version", "Project file not found")

PublisherUrlNotes ==
    {i \in 1..Len(updates) : updates[i] = "Added default PublisherUrl from git remote"}

\* C9 (as amended): when PublisherUrl is unset and the url of remote "origin"
\* reads as http(s)://host/owner/repo or git@host:owner/repo (with or without
\* .git), a pass that completes sets the key to https://host/owner, whatever
\* the scheme of the url, and logs one change note; for any other url and
\* for no remote the key stays as it was, no note is logged and the remote
\* raises no error.
C9_PublisherUrlFromRemote ==
    (Existing /\ PassDone /\ ~Truthy(Before.PublisherUrl)) =>
        /\ err.step = "ensure_cfg" => err.msg \in VersionMessages
        /\ err.step # "ensure_cfg" =>
              IF RemoteReadings(remote) # {}
              THEN /\ \E r \in RemoteReadings(remote) :
                         cfg.PublisherUrl = Str(Https \o r.host \o <<"/">> \o r.owner)
                   /\ After.PublisherUrl = cfg.PublisherUrl
                   /\ Cardinality(PublisherUrlNotes) = 1
                   /\ \E i \in 1..Len(out) : out[i] = "Added default PublisherUrl from git remote"
              ELSE /\ cfg.PublisherUrl = Before.PublisherUrl
                   /\ After.PublisherUrl = Before.PublisherUrl
                   /\ PublisherUrlNotes = {}

\* C9 as stated: the key is set to scheme://host/owner for the http and
\* https forms and to https://host/owner for the ssh form
C9_AsStated ==
    (Existing /\ PassOk /\ ~Truthy(Before.PublisherUrl) /\ RemoteReadings(remote) # {}) =>
        \E r \in RemoteReadings(remote) :
            cfg.PublisherUrl = Str((IF r.scheme = GitAt THEN Https ELSE r.scheme)
                                   \o r.host \o <<"/">> \o r.owner)

\* a pass has filled the key from an http url
C9_Witness ==
    /\ Existing /\ ~Truthy(Before.PublisherUrl)
    /\ pc = "update_version"
    /\ remote = Http \o HostOwnerRepo
    /\ cfg.PublisherUrl = Str(Https \o <<"h", "/", "o">>)
    /\ Cardinality(PublisherUrlNotes) = 1

MacNotes ==
    {i \in 1..Len(updates) : updates[i] \in {"Added default Mac packaging section",
                                             "Normalised Mac packaging settings"}}

\* C10: a document whose Mac key is null keeps it null, in memory and on
\* disk, in every run: no Mac change note, no macOS publish or packaging
\* step, no line about macOS.  A Mac section that is present gets its
\* missing RuntimeIdentifiers and InfoPlist filled, and every sub-key that
\* held a value keeps it; IconIcns is not touched.
C10_MacSection ==
    /\ (Existing /\ PassDone /\ Before.Mac.t = "null") =>
          /\ After.Mac = Before.Mac
          /\ PassOk => cfg.Mac = Before.Mac
          /\ MacNotes = {}
          /\ pc \notin {"publish_mac", "package_mac"}
          /\ macQueue = <<>>
          /\ \A i \in 1..Len(invoked) : invoked[i][1] # "hdiutil"
          /\ \A i \in 1..Len(out) :
                out[i] \notin {"[mac] Disk image written",
                               "[mac] Skipping macOS packaging; requires running on macOS."}
    /\ (Existing /\ PassOk /\ Before.Mac.t = "dict") =>
          /\ cfg.Mac.t = "dict"
          /\ cfg.Mac.RuntimeIdentifiers =
                IF TruthyV(Before.Mac.RuntimeIdentifiers) THEN Before.Mac.RuntimeIdentifiers
                ELSE List(DefaultRids)
          /\ cfg.Mac.InfoPlist =
                IF TruthyV(Before.Mac.InfoPlist) THEN Before.Mac.InfoPlist
                ELSE Str(<<PlistPath>>)
          /\ cfg.Mac.IconIcns = Before.Mac.IconIcns
          /\ After.Mac = cfg.Mac

\* on macOS, the second run over a document whose Mac key is null has ended
\* without packaging anything
C10_Witness ==
    /\ run = 2
    /\ Existing /\ Before.Mac.t = "null"
    /\ platform = "mac"
    /\ pc = "done" /\ exitCode = 0
    /\ cfg.Mac = NullMac /\ After.Mac = NullMac
    /\ ~anyPackaged

\* a pass has filled the missing InfoPlist of a Mac section and kept its
\* RuntimeIdentifiers and IconIcns
C10_WitnessPartial ==
    /\ Existing /\ Before.Mac = MacPartialRids
    /\ pc = "update_version"
    /\ cfg.Mac = [MacPartialRids EXCEPT !.InfoPlist = Str(<<PlistPath>>)]

\* update_project_version has returned in the current run, for a document
\* that names a project descriptor
Propagated ==
    /\ pc \notin {"ensure_cfg", "update_version"}
    /\ err.step \notin {"ensure_cfg", "update_project_version"}
    /\ Truthy(cfg.Project)
\* the places of a tag in a text
Places(text, tags) == {i \in 1..Len(text) : text[i] \in tags}
Least(S) == CHOOSE i \in S : \A j \in S : i <= j
\* text holds a Version element: a <Version> tag with a </Version> after it
HasVersionElement(text) ==
    \E i \in Places(text, {"<Version>"}) : \E j \in Places(text, {"</Version>"}) : i < j
\* what the first Version element of text holds
FirstVersionText(text) ==
    LET i == Least(Places(text, {"<Version>"}))
        j == Least({k \in Places(text, {"</Version>"}) : k > i})
    IN  SubSeq(text, i + 1, j - 1)
\* text with its first Version element holding v
WithFirstVersion(text, v) ==
    LET i == Least(Places(text, {"<Version>"}))
        j == Least({k \in Places(text, {"</Version>"}) : k > i})
    IN  SubSeq(text, 1, i) \o v \o SubSeq(text, j, Len(text))
\* new is old with one line holding a Version element for v put in after
\* some place of the span lo..hi
InsertedIn(old, new, v, lo, hi) ==
    \E q \in lo..hi :
        new = SubSeq(old, 1, q)
              \o <<" ", " ", " ", " ", " ", " ", " ", " ", "<Version>">> \o v
              \o <<"</Version>", "\n">>
              \o SubSeq(old, q + 1, Len(old))
\* the span of the first property group of text whose start tag is one of tags
FirstGroup(text, tags) ==
    LET g == Least(Places(text, tags))
    IN  [lo |-> g, hi |-> Least({k \in Places(text, {"</PropertyGroup>"}) : k > g}) - 1]

C11_WitnessReplaced ==
    /\ Propagated
    /\ writes.proj = 1
    /\ HasVersionElement(hist.proj.text)
    /\ FirstVersionText(hist.proj.text) = Sample.V20
    /\ FirstVersionText(projFile.text) = cfg.Version.s
    /\ cfg.Version.s # Sample.V20
    /\ Cardinality(Places(projFile.text, {"<Version>"})) = 2

ErrorLines == {i \in 1..Len(out) : out[i] = "ERROR: "}
\* the steps of main that can raise
Steps == {"ensure_cfg", "update_project_version", "publish_project", "package_windows",
          "package_macos", "main"}

\* C12: a packaging error raised by a step of the run ends the run: the
\* next thing the process does is print one line "ERROR: ..." and exit with
\* status 1, no tool is invoked and no file is written after the error, and
\* the runtime identifiers left in the macOS loop are not published; a run
\* in which no step fails prints no such line and exits with status 0.
C12_ErrorsAbort ==
    /\ [](/\ err.kind = "PackagingError" =>
                /\ err.step \in Steps
                /\ pc \in {"failed", "done"}
          /\ pc = "failed" <=> (err.kind # "none" /\ exitCode = -1)
          /\ pc = "done" =>
                /\ exitCode = IF err.kind = "none" THEN 0 ELSE 1
                /\ Cardinality(ErrorLines) = IF err.kind = "PackagingError" THEN 1 ELSE 0
                /\ err.kind = "PackagingError" => out[Len(out)] = "ERROR: "
          /\ pc # "done" => ErrorLines = {} /\ exitCode = -1)
    /\ [][(err.kind = "PackagingError" /\ run' = run) =>
              /\ pc = "failed" /\ pc' = "done"
              /\ exitCode' = 1
              /\ out' = Append(out, "ERROR: ")
              /\ UNCHANGED <<invoked, generated, expansion, macQueue, anyPackaged, cfgFile,
                             prefsFile, projFile, writes, err>>]_vars

\* on macOS, the packaging of the first of two runtime identifiers has
\* failed after its publish; the second was not published and the process
\* has exited with status 1
C12_Witness ==
    /\ pc = "done" /\ exitCode = 1
    /\ err.kind = "PackagingError" /\ err.step = "package_macos"
    /\ Len(macQueue) = 2
    /\ Cardinality({i \in 1..Len(invoked) : invoked[i][1] = "dotnet publish"}) = 1
    /\ Cardinality(ErrorLines) = 1

\* C13 (as amended): one call of ensure_cfg writes the preference file at
\* most once, and writes packaging.json at most once when it starts from an
\* object or from no file: once when it creates the document or when
\* backfill changed it, not at all otherwise.  Starting from a list with a
\* leading object it writes packaging.json once at load and once more when
\* backfill changed the document, twice in all.
C13_WritesPerPass ==
    PassDone =>
        /\ writes.prefs \in {0, 1}
        /\ writes.cfg =
              IF hist.file.kind = "absent" THEN (IF PassOk THEN 1 ELSE 0)
              ELSE IF hist.file.kind = "dict"
              THEN (IF PassOk /\ updates # <<>> THEN 1 ELSE 0)
              ELSE IF Existing
              THEN 1 + (IF PassOk /\ updates # <<>> THEN 1 ELSE 0)
              ELSE 0
        /\ (writes.cfg = 0) = (cfgFile = hist.file)
        /\ (writes.prefs = 0) = (prefsFile = hist.prefs)

\* C13 as stated: one call of ensure_cfg writes packaging.json at most once
\* and the preference file at most once, whatever it starts from
C13_AsStated ==
    PassDone => writes.cfg <= 1 /\ writes.prefs <= 1

\* a pass over a list has written packaging.json at load and again after
\* backfill, and the preference file once
C13_Witness ==
    /\ pc = "update_version"
    /\ hist.file.kind = "list"
    /\ writes.cfg = 2
    /\ writes.prefs = 1
    /\ updates # <<>>

\* the non-empty segments of s between dots, cur being the segment read so far
RECURSIVE Segments(_, _)
Segments(s, cur) ==
    IF s = <<>> THEN (IF cur = <<>> THEN <<>> ELSE <<cur>>)
    ELSE IF Head(s) = "."
    THEN (IF cur = <<>> THEN <<>> ELSE <<cur>>) \o Segments(Tail(s), <<>>)
    ELSE Segments(Tail(s), Append(cur, Head(s)))
\* each segment but the last, followed by a dot
RECURSIVE AllButLast(_)
AllButLast(segs) ==
    IF Len(segs) <= 1 THEN <<>> ELSE Head(segs) \o <<".">> \o AllButLast(Tail(segs))
\* "com.", the letters and digits of the company name in lower case
\* ("example" when there are none), and a dot
AutoPrefixOf(c) ==
    LET slug == IF c.CompanyName.t = "str"
                THEN SelectSeq(Lower(c.CompanyName.s), IsAlnum) ELSE <<>>
    IN  <<"c", "o", "m", ".">>
        \o (IF slug = <<>> THEN <<"e", "x", "a", "m", "p", "l", "e">> ELSE slug) \o <<".">>
IdSegments == Segments(Strip(cfg.BundleIdentifier.s), <<>>)
\* the map of the preference document the run found holds the prefix p for
\* the auto-prefix a
OnRecord(a, p) == a \in DOMAIN hist.prefs.Map /\ hist.prefs.Map[a] = Str(p)

\* C14: the call of remember_bundle_prefix in a pass changes the preference
\* document exactly when the BundleIdentifier of the document has at least
\* three non-empty segments between dots and the map does not hold, for the
\* auto-prefix of the document, the prefix of the identifier (its segments
\* but the last, each followed by a dot); it then writes the file once, with
\* that entry set to the prefix and every other entry and the legacy key as
\* they were.  In every other case, and in a pass that fails, the preference
\* file is neither changed nor written.
C14_RememberFrame ==
    /\ (PassDone /\ ~PassOk) => prefsFile = hist.prefs /\ writes.prefs = 0
    /\ PassOk =>
          /\ cfg.BundleIdentifier.t = "str"
          /\ IF Len(IdSegments) >= 3 /\ ~OnRecord(AutoPrefixOf(cfg), AllButLast(IdSegments))
             THEN /\ writes.prefs = 1
                  /\ prefsFile # hist.prefs
                  /\ prefsFile.Legacy = hist.prefs.Legacy
                  /\ DOMAIN prefsFile.Map = DOMAIN hist.prefs.Map \cup {AutoPrefixOf(cfg)}
                  /\ prefsFile.Map[AutoPrefixOf(cfg)] = Str(AllButLast(IdSegments))
                  /\ \A k \in DOMAIN hist.prefs.Map \ {AutoPrefixOf(cfg)} :
                        prefsFile.Map[k] = hist.prefs.Map[k]
             ELSE /\ writes.prefs = 0
                  /\ prefsFile = hist.prefs

\* a pass has added an entry to a map that held another one, which it kept
C14_Witness ==
    /\ PassOk
    /\ writes.prefs = 1
    /\ Cardinality(DOMAIN hist.prefs.Map) = 1
    /\ Cardinality(DOMAIN prefsFile.Map) = 2
    /\ \A k \in DOMAIN hist.prefs.Map : prefsFile.Map[k] = hist.prefs.Map[k]

\* a pass over an identifier of two segments has left the preference file
\* alone
C14_WitnessShort ==
    /\ PassOk
    /\ Len(IdSegments) = 2
    /\ writes.prefs = 0 /\ prefsFile = hist.prefs

\* a pass has left alone a map that held the prefix of the identifier
C14_WitnessOnRecord ==
    /\ PassOk
    /\ Len(IdSegments) >= 3
    /\ OnRecord(AutoPrefixOf(cfg), AllButLast(IdSegments))
    /\ writes.prefs = 0

\* what a call of replace_tokens gives: the text, or the set of the names
\* its error lists
Outcome(r) == IF r.ok THEN [ok |-> TRUE, text |-> r.text, names |-> {}]
              ELSE [ok |-> FALSE, text |-> <<>>, names |-> Range(r.names)]
\* the outcome of the call the state records
Recorded == IF expansion.ok THEN [ok |-> TRUE, text |-> expansion.text, names |-> {}]
            ELSE [ok |-> FALSE, text |-> <<>>, names |-> Range(err.names)]
\* every order of the entries gives the outcome recorded
SameForEveryOrder ==
    \A q \in Orders(Range(expansion.tokens)) :
        Outcome(replace_tokens(expansion.template, q)) = Recorded
Values == {expansion.tokens[i].value : i \in DOMAIN expansion.tokens}
\* i is the place of a brace of a placeholder of text: "{{", a name with
\* white space allowed on either side, "}}"
InPlaceholder(text, i) ==
    \E o \in 1..(Len(text) - 1) : \E c \in (o + 2)..(Len(text) - 1) :
        /\ text[o] = "{" /\ text[o + 1] = "{" /\ text[c] = "}" /\ text[c + 1] = "}"
        /\ i \in {o, o + 1, c, c + 1}
        /\ \E a \in (o + 2)..(c - 1) : \E b \in a..(c - 1) :
              /\ \A k \in (o + 2)..(a - 1) : IsSpace(text[k])
              /\ \A k \in a..b : IsWord(text[k])
              /\ \A k \in (b + 1)..(c - 1) : IsSpace(text[k])
\* every brace of the template is a brace of a placeholder
BracesInPlaceholders(text) ==
    \A i \in 1..Len(text) : text[i] \in {"{", "}"} => InPlaceholder(text, i)
NoBrace(v) == \A i \in 1..Len(v) : v[i] \notin {"{", "}"}
NoDoubleBrace(v) == \A i \in 1..(Len(v) - 1) : ~(v[i] = "{" /\ v[i + 1] = "{")

\* C15 (as amended): when every brace of the template is a brace of a
\* {{name}} placeholder and no value of the token map holds a brace, a call
\* of replace_tokens gives the same outcome (the same text, or the same set
\* of remaining names) for every order of the entries of the map, and the
\* text it gives is the template with every {{key}} replaced by the value of
\* key in one pass.
C15_OrderIndependentWhenPlain ==
    (expansion.called /\ BracesInPlaceholders(expansion.template)
     /\ \A v \in Values : NoBrace(v)) =>
        /\ SameForEveryOrder
        /\ expansion.text = Expand(expansion.template, expansion.tokens)

\* C15 as stated: when no value of the token map holds "{{", a call of
\* replace_tokens gives the same outcome for every order of the entries
C15_AsStated ==
    (expansion.called /\ \A v \in Values : NoDoubleBrace(v)) => SameForEveryOrder

\* a call on a template of three placeholders, all of them keys, has given
\* the text
C15_Witness ==
    /\ pc = "replaced"
    /\ expansion.template = Ph(Key.Foo) \o Ph(Key.Bar) \o Ph(Key.Version)
    /\ \A v \in Values : NoBrace(v)
    /\ expansion.text = Key.Bar \o <<"b">> \o Sample.V12
    /\ expansion.tokens[1].key = Key.Version

\* a call has failed on a template with a name that is no key, written twice
C15_WitnessFailed ==
    /\ pc = "failed"
    /\ BracesInPlaceholders(expansion.template)
    /\ \A v \in Values : NoBrace(v)
    /\ Cardinality(Range(err.names)) = 2

\* C16 as stated: once ensure_cfg has returned for an existing document, the
\* document the driver holds is the document on disk, and every change of
\* the pass has its note: a pass without notes leaves the document it
\* loaded as it was
C16_AsStated ==
    (Existing /\ PassOk) =>
        /\ cfgFile.kind = "dict"
        /\ After = cfg
        /\ updates = <<>> => cfg = Before

====
